---- MODULE Spec2Model ----
(***************************************************************************)
(* Geo Graph Engine: the data validators (validate-data.zod, the adjacency *)
(* integrity check, validate-coverage) and the Geo Doctor, as state        *)
(* machines over their input documents.                                    *)
(*                                                                         *)
(* Strings are sequences of one-character strings, so that lower-casing,   *)
(* slug normalisation and the code-unit order of Array.prototype.sort are  *)
(* computed and not assumed.  An absent (undefined) or empty string field  *)
(* is the empty sequence; an absent number is the empty sequence and a     *)
(* present number n is <<n>>.                                              *)
(***************************************************************************)
EXTENDS Integers, Sequences, FiniteSets, TLC

\* ------------------------------------------------------------------ bounds
\* most clusters in a cluster document
MaxClusters == 2
\* most neighbours listed under one adjacency source
MaxAdjLen == 2
\* most suburbs listed under one service of the coverage document
MaxCovLen == 2

\* ------------------------------------------------------------------ strings
\* the characters of the model, in UTF-16 code unit order
CharTable == << " ", "!", "-", "1", "A", "B", "N", "a", "b", "c", "n", "s", "z" >>

Code(ch) == CHOOSE i \in 1..Len(CharTable) : CharTable[i] = ch

LowerOf(ch) ==
  IF ch = "A" THEN "a" ELSE IF ch = "B" THEN "b" ELSE IF ch = "N" THEN "n" ELSE ch

IsAlnum(ch) == ch \in {"1", "a", "b", "c", "n", "s", "z"}

\* String.prototype.toLowerCase
toLowerCase(s) == [i \in 1..Len(s) |-> LowerOf(s[i])]

\* s < t in the order Array.prototype.sort() uses for strings
StrLess(s, t) ==
  \E i \in 1..(Len(t)) :
    /\ \A j \in 1..(i - 1) : j <= Len(s) /\ s[j] = t[j]
    /\ \/ i > Len(s)
       \/ i <= Len(s) /\ Code(s[i]) < Code(t[i])

RECURSIVE InsertStr(_, _)
InsertStr(sorted, s) ==
  IF sorted = << >> THEN << s >>
  ELSE IF StrLess(s, Head(sorted)) THEN << s >> \o sorted
  ELSE << Head(sorted) >> \o InsertStr(Tail(sorted), s)

\* list.sort() on an array of strings
RECURSIVE SortStr(_)
SortStr(list) ==
  IF list = << >> THEN << >>
  ELSE InsertStr(SortStr(Tail(list)), Head(list))

Range(f) == { f[i] : i \in DOMAIN f }

\* truthiness of a string-or-undefined value
Truthy(s) == s # << >>

\* the slug scalar of the Zod contracts: /^[a-z0-9-]+$/, at least one character
IsSlug(s) == Len(s) >= 1 /\ \A i \in 1..Len(s) : IsAlnum(s[i]) \/ s[i] = "-"

\* ------------------------------------------------------------------ slug normaliser
\* collapse every run of hyphens into one
RECURSIVE CollapseHyphens(_)
CollapseHyphens(s) ==
  IF Len(s) <= 1 THEN s
  ELSE IF s[1] = "-" /\ s[2] = "-" THEN CollapseHyphens(Tail(s))
  ELSE << s[1] >> \o CollapseHyphens(Tail(s))

TrimHyphens(s) ==
  LET a == IF s # << >> /\ Head(s) = "-" THEN Tail(s) ELSE s
  IN  IF a # << >> /\ a[Len(a)] = "-" THEN SubSeq(a, 1, Len(a) - 1) ELSE a

\* normalize(raw): lower-case, every run of non-alphanumerics becomes one
\* hyphen, leading and trailing hyphens are trimmed
slugifyStr(s) ==
  LET low  == toLowerCase(s)
      hyph == [i \in 1..Len(low) |-> IF IsAlnum(low[i]) THEN low[i] ELSE "-"]
  IN  TrimHyphens(CollapseHyphens(hyph))

\* a suburb entry of a cluster document: a bare string (kind "str", the string
\* in field slug) or an object (kind "obj") with optional slug, name, lat, lng
StrEntry(s) == [kind |-> "str", slug |-> s, name |-> << >>, lat |-> << >>, lng |-> << >>]
ObjEntry(sl, nm, la, ln) == [kind |-> "obj", slug |-> sl, name |-> nm, lat |-> la, lng |-> ln]

\* normalize applied to a bare string or to an object carrying slug/name:
\* prefer the explicit slug, fall back to the name
slugify(e) ==
  IF e.kind = "str" THEN slugifyStr(e.slug)
  ELSE slugifyStr(IF Truthy(e.slug) THEN e.slug ELSE e.name)

\* String(raw) of a cluster entry: the string itself; an object prints as
\* "[object Object]", which is never its own slug
StringOfIsSlugified(e) == e.kind = "str" /\ e.slug = slugifyStr(e.slug)

\* ------------------------------------------------------------------ helpers
RECURSIVE SumSeq(_)
SumSeq(ns) == IF ns = << >> THEN 0 ELSE Head(ns) + SumSeq(Tail(ns))

RECURSIVE Flatten(_)
Flatten(ss) == IF ss = << >> THEN << >> ELSE Head(ss) \o Flatten(Tail(ss))

Map1(seq, F(_)) == [i \in 1..Len(seq) |-> F(seq[i])]

\* Array.from(new Set(seq)): the first occurrence of each element, in order
Dedupe(seq) ==
  LET first == SelectSeq([i \in 1..Len(seq) |-> i],
                         LAMBDA i : \A k \in 1..(i - 1) : seq[k] # seq[i])
  IN  [i \in 1..Len(first) |-> seq[first[i]]]

Count(seq, P(_)) == Cardinality({ i \in 1..Len(seq) : P(seq[i]) })

\* a line written to the console, or the message of fail(): what it is about
\* (kind), the strings it names (a, b, c) and the references it lists
Msg(kind, a, b, c, list) == [kind |-> kind, a |-> a, b |-> b, c |-> c, list |-> list]

NoStr == << >>

\* Map.get: the value, or undefined
MapGet(m, k) == IF k \in DOMAIN m THEN m[k] ELSE << >>

MapSet(m, k, v) == [x \in DOMAIN m \cup {k} |-> IF x = k THEN v ELSE m[x]]

EmptyMap == [x \in {} |-> << >>]

\* ------------------------------------------------------------------ state
VARIABLES
  prog,              \* the script that runs
  pc,                \* its position
  env,               \* environment toggles and command line flags
  clustersDoc,       \* areas.clusters.json: [ok, shape, clusters]
  adjacencyDoc,      \* the adjacency document: [ok, entries]
  coverage,          \* serviceCoverage.json: a sequence of [svc, entries]
  proxDoc,           \* proximity.json: [ok, nearby]
  cfgDoc,            \* geo.config.json: [ok, limit, adjacencyBoost, ...]
  clusterMapDoc,     \* cluster_map.json: [ok, keys]
  suburbToCluster,   \* suburb slug -> cluster slug
  clusterToSuburbs,  \* cluster slug -> sorted suburb slugs
  adj,               \* normalised adjacency: a sequence of [src, list]
  tally,             \* the counters of the adjacency passes: [missing, cross, duplicates]
  console,           \* the lines written so far
  exitCode,          \* << >> while running, <<n>> once the process has exited
  dr,                \* the Geo Doctor's working state
  km                 \* the cluster splitter's working state

vars == << prog, pc, env, clustersDoc, adjacencyDoc, coverage, proxDoc, cfgDoc,
           clusterMapDoc, suburbToCluster, clusterToSuburbs, adj, tally, console,
           exitCode, dr, km >>

inputs == << prog, env, clustersDoc, adjacencyDoc, coverage, proxDoc, cfgDoc, clusterMapDoc >>

\* ------------------------------------------------------------------ validate-data.zod
\* ClustersUnion.safeParse(clustersDoc).success
ClusterObjectOK(c) ==
  /\ IsSlug(c.slug)
  /\ c.hasSuburbs
  /\ Len(c.suburbs) >= 1
  /\ \A i \in 1..Len(c.suburbs) :
       LET e == c.suburbs[i]
       IN  IF e.kind = "str" THEN IsSlug(e.slug)
           ELSE /\ e.slug = << >> \/ IsSlug(e.slug)
                /\ e.lat = << >> \/ (e.lat[1] >= -90 /\ e.lat[1] <= 90)
                /\ e.lng = << >> \/ (e.lng[1] >= -180 /\ e.lng[1] <= 180)

ClustersUnionOK(doc) ==
  IF doc.shape = "array"
  THEN Len(doc.clusters) >= 1 /\ \A i \in 1..Len(doc.clusters) : ClusterObjectOK(doc.clusters[i])
  ELSE \A i \in 1..Len(doc.clusters) :
         LET c == doc.clusters[i]
         IN  /\ c.hasSuburbs
             /\ Len(c.suburbs) >= 1
             /\ \A j \in 1..Len(c.suburbs) : c.suburbs[j].kind = "str" /\ IsSlug(c.suburbs[j].slug)

\* the body of the loop over clusters, for one cluster c; acc carries
\* suburbToCluster, clusterToSuburbs, dupIntra and the failure raised so far
\* the loop without the membership check: the last cluster listing a suburb wins
RECURSIVE mapSuburbs_lastWins(_, _, _)
mapSuburbs_lastWins(list, cSlug, acc) ==
  IF list = << >> THEN acc
  ELSE mapSuburbs_lastWins(Tail(list), cSlug,
                           [acc EXCEPT !.suburbToCluster = MapSet(@, Head(list), cSlug)])

RECURSIVE mapSuburbs(_, _, _)
mapSuburbs(list, cSlug, acc) ==
  IF list = << >> \/ acc.failed THEN acc
  ELSE LET s    == Head(list)
           prev == MapGet(acc.suburbToCluster, s)
       IN  IF Truthy(prev) /\ prev # cSlug
           THEN [acc EXCEPT !.failed = TRUE, !.fail = Msg("multiple-clusters", s, prev, cSlug, << >>)]
           ELSE mapSuburbs(Tail(list), cSlug,
                           [acc EXCEPT !.suburbToCluster = MapSet(@, s, cSlug)])

indexCluster(c, STRICT, acc) ==
  LET cSlug   == slugifyStr(c.slug)
      listRaw == c.suburbs
      badRaw  == { i \in 1..Len(listRaw) : ~StringOfIsSlugified(listRaw[i]) }
      list    == SortStr(Map1(listRaw, slugify))
      dupIdx  == SelectSeq([i \in 1..Len(list) |-> i],
                           LAMBDA j : \E k \in 1..(j - 1) : list[k] = list[j])
      acc1    == [acc EXCEPT !.dupIntra = @ \o [i \in 1..Len(dupIdx) |-> << cSlug, list[dupIdx[i]] >>],
                             !.clusterToSuburbs = MapSet(@, cSlug, list)]
  IN  IF STRICT /\ c.slug # slugifyStr(c.slug)
      THEN [acc EXCEPT !.failed = TRUE, !.fail = Msg("non-slug-cluster", NoStr, c.slug, NoStr, << >>)]
      ELSE IF STRICT /\ badRaw # {}
      THEN LET i == CHOOSE i \in badRaw : \A j \in badRaw : i <= j
           IN  [acc EXCEPT !.failed = TRUE,
                           !.fail = Msg("non-slug-suburb", listRaw[i].slug, c.slug, NoStr, << >>)]
      ELSE mapSuburbs(list, cSlug, acc1)

RECURSIVE indexClusters(_, _, _)
indexClusters(cs, STRICT, acc) ==
  IF cs = << >> \/ acc.failed THEN acc
  ELSE indexClusters(Tail(cs), STRICT, indexCluster(Head(cs), STRICT, acc))

\* normalizeClusters(): the two indexes, or the message fail() exits with
normalizeClusters(doc, STRICT) ==
  LET acc0 == [failed |-> FALSE, fail |-> Msg("none", NoStr, NoStr, NoStr, << >>),
               suburbToCluster |-> EmptyMap, clusterToSuburbs |-> EmptyMap, dupIntra |-> << >>]
      acc  == indexClusters(doc.clusters, STRICT, acc0)
  IN  IF ~ClustersUnionOK(doc)
      THEN [acc0 EXCEPT !.failed = TRUE, !.fail = Msg("clusters-schema", NoStr, NoStr, NoStr, << >>)]
      ELSE IF acc.failed THEN acc
      ELSE IF Len(acc.dupIntra) > 0
      THEN [acc EXCEPT !.failed = TRUE,
                       !.fail = Msg("duplicate-in-cluster", NoStr, NoStr, NoStr, Dedupe(acc.dupIntra))]
      ELSE acc

\* AdjacencyUnion.safeParse(adjacencyDoc).success: every value an array of slugs,
\* or every value an object {adjacent_suburbs: slug[]}
AdjacencyUnionOK(doc) ==
  /\ \/ \A i \in 1..Len(doc) : doc[i].kind = "array"
     \/ \A i \in 1..Len(doc) : doc[i].kind = "object"
  /\ \A i \in 1..Len(doc) : \A j \in 1..Len(doc[i].list) : IsSlug(doc[i].list[j])

\* out[key] = value on a plain object: a new key is appended, an existing key
\* keeps its place and takes the new value
ObjSet(out, key, value) ==
  IF \E i \in 1..Len(out) : out[i].src = key
  THEN [i \in 1..Len(out) |-> IF out[i].src = key THEN [src |-> key, list |-> value] ELSE out[i]]
  ELSE Append(out, [src |-> key, list |-> value])

RECURSIVE normalizeAdjacencyFrom(_, _)
normalizeAdjacencyFrom(doc, out) ==
  IF doc = << >> THEN out
  ELSE normalizeAdjacencyFrom(Tail(doc),
         ObjSet(out, slugifyStr(Head(doc).src), SortStr(Map1(Head(doc).list, slugifyStr))))

\* normalizeAdjacency(): the adjacency_suburbs form and the array form both
\* become slug -> sorted slug list
normalizeAdjacency(doc) == normalizeAdjacencyFrom(doc, << >>)

\* the lines and the two counters one adjacency entry a -> ns contributes
adjacencyEntryFindings(e, s2c, warnOnly) ==
  LET a       == e.src
      ca      == MapGet(s2c, a)
      skipped == ~Truthy(ca) /\ warnOnly
      ns      == IF skipped THEN << >> ELSE e.list
      perB    == [i \in 1..Len(ns) |->
                   LET b == ns[i]  cb == MapGet(s2c, b)
                   IN  IF ~Truthy(cb) THEN << Msg("MISSING NEIGHBOR", a, b, NoStr, << >>) >>
                       ELSE IF Truthy(ca) /\ Truthy(cb) /\ ca # cb
                       THEN << Msg("CROSS EDGE", a, b, NoStr, << >>) >>
                       ELSE << >>]
  IN  (IF ~Truthy(ca) THEN << Msg("MISSING NODE", a, NoStr, NoStr, << >>) >> ELSE << >>)
      \o Flatten(perB)

\* validateAdjacencyAgainstClusters(adj, suburbToCluster)
validateAdjacencyAgainstClusters(adjN, s2c, warnOnly) ==
  LET lines   == Flatten([i \in 1..Len(adjN) |-> adjacencyEntryFindings(adjN[i], s2c, warnOnly)])
      missing == Count(lines, LAMBDA m : m.kind \in {"MISSING NODE", "MISSING NEIGHBOR"})
      cross   == Count(lines, LAMBDA m : m.kind = "CROSS EDGE")
  IN  [lines |-> lines, missing |-> missing, cross |-> cross,
       failed |-> ~warnOnly /\ (missing # 0 \/ cross # 0)]

\* CoverageSchema.safeParse(coverage).success
CoverageSchemaOK(cov) ==
  \A i \in 1..Len(cov) : \A j \in 1..Len(cov[i].entries) : IsSlug(cov[i].entries[j])

\* validateCoverageTokens: the tokens that are neither a suburb nor a cluster
unknownTokens(cov, s2c, c2s) ==
  Flatten([i \in 1..Len(cov) |->
    SelectSeq([j \in 1..Len(cov[i].entries) |-> << cov[i].svc, cov[i].entries[j] >>],
              LAMBDA p : LET token == slugifyStr(p[2])
                         IN  ~(token \in DOMAIN s2c) /\ ~(token \in DOMAIN c2s))])

Exit(code) == exitCode' = << code >> /\ pc' = "exit"

NoTally == [missing |-> 0, cross |-> 0, duplicates |-> 0, dropped |-> 0]

\* main(): const { suburbToCluster, clusterToSuburbs } = normalizeClusters()
NormalizeClusters ==
  /\ prog = "validate-data" /\ pc = "normalizeClusters"
  /\ LET r == normalizeClusters(clustersDoc, env.STRICT_MODE)
     IN  IF r.failed
         THEN /\ console' = Append(console, r.fail)
              /\ Exit(1)
              /\ UNCHANGED << suburbToCluster, clusterToSuburbs >>
         ELSE /\ suburbToCluster' = r.suburbToCluster
              /\ clusterToSuburbs' = r.clusterToSuburbs
              /\ pc' = "normalizeAdjacency"
              /\ UNCHANGED << console, exitCode >>
  /\ UNCHANGED << inputs, adj, tally, dr, km >>

\* main(): const adj = normalizeAdjacency()
NormalizeAdjacency ==
  /\ prog = "validate-data" /\ pc = "normalizeAdjacency"
  /\ IF ~AdjacencyUnionOK(adjacencyDoc.entries)
     THEN /\ console' = Append(console, Msg("adjacency-schema", NoStr, NoStr, NoStr, << >>))
          /\ Exit(1)
          /\ UNCHANGED adj
     ELSE /\ adj' = normalizeAdjacency(adjacencyDoc.entries)
          /\ pc' = "validateAdjacency"
          /\ UNCHANGED << console, exitCode >>
  /\ UNCHANGED << inputs, suburbToCluster, clusterToSuburbs, tally, dr, km >>

\* main(): validateAdjacencyAgainstClusters(adj, suburbToCluster)
ValidateAdjacencyAgainstClusters ==
  /\ prog = "validate-data" /\ pc = "validateAdjacency"
  /\ LET r == validateAdjacencyAgainstClusters(adj, suburbToCluster, env.GEO_ALLOW_MISSING)
     IN  /\ tally' = [tally EXCEPT !.missing = r.missing, !.cross = r.cross]
         /\ IF r.failed
            THEN /\ console' = console \o r.lines \o << Msg("graph invalid", NoStr, NoStr, NoStr, << >>) >>
                 /\ Exit(1)
            ELSE /\ console' = console \o r.lines \o
                       (IF env.GEO_ALLOW_MISSING
                        THEN << Msg("Adjacency check (warnings only)", NoStr, NoStr, NoStr, << >>) >>
                        ELSE << >>)
                 /\ pc' = "validateCoverage"
                 /\ UNCHANGED exitCode
  /\ UNCHANGED << inputs, suburbToCluster, clusterToSuburbs, adj, dr, km >>

\* main(): validateCoverageTokens(suburbToCluster, clusterToSuburbs), then
\* 'validate-data.zod OK'
ValidateCoverageTokens ==
  /\ prog = "validate-data" /\ pc = "validateCoverage"
  /\ LET unknown == unknownTokens(coverage, suburbToCluster, clusterToSuburbs)
     IN  IF ~CoverageSchemaOK(coverage)
         THEN /\ console' = Append(console, Msg("coverage-schema", NoStr, NoStr, NoStr, << >>))
              /\ Exit(1)
         ELSE IF Len(unknown) > 0 /\ ~env.GEO_ALLOW_MISSING
         THEN /\ console' = Append(console, Msg("Unknown coverage tokens", NoStr, NoStr, NoStr, unknown))
              /\ Exit(1)
         ELSE /\ console' = console
                   \o (IF Len(unknown) > 0
                       THEN << Msg("Coverage tokens unknown (warning)", NoStr, NoStr, NoStr, unknown) >>
                       ELSE << >>)
                   \o << Msg("validate-data.zod OK", NoStr, NoStr, NoStr, << >>) >>
              /\ Exit(0)
  /\ UNCHANGED << inputs, suburbToCluster, clusterToSuburbs, adj, tally, dr, km >>

\* ------------------------------------------------------------------ adjacency integrity check
\* .replace(/\s+/g, '-'): every run of white space becomes one hyphen
RECURSIVE SpacesToHyphen(_)
SpacesToHyphen(s) ==
  IF s = << >> THEN << >>
  ELSE IF Head(s) = " "
  THEN IF Len(s) >= 2 /\ s[2] = " " THEN SpacesToHyphen(Tail(s))
       ELSE << "-" >> \o SpacesToHyphen(Tail(s))
  ELSE << Head(s) >> \o SpacesToHyphen(Tail(s))

\* the check's own slugify(name)
slugifyIntegrity(e) ==
  LET raw == IF e.kind = "str" THEN e.slug
             ELSE IF Truthy(e.slug) THEN e.slug ELSE e.name
  IN  SelectSeq(SpacesToHyphen(toLowerCase(raw)), LAMBDA ch : IsAlnum(ch) \/ ch = "-")

\* the suburb -> cluster map and the duplicates of the integrity check, over
\* the flattened << cluster slug, suburb entry >> pairs of the document
RECURSIVE buildSuburb2cluster(_, _)
buildSuburb2cluster(pairs, acc) ==
  IF pairs = << >> THEN acc
  ELSE LET slug == slugifyIntegrity(Head(pairs)[2])
       IN  buildSuburb2cluster(Tail(pairs),
             [suburb2cluster |-> MapSet(acc.suburb2cluster, slug, Head(pairs)[1]),
              duplicates |-> IF slug \in DOMAIN acc.suburb2cluster
                             THEN Append(acc.duplicates, slug) ELSE acc.duplicates])

\* clusters.clusters || [], flattened
clusterPairs(doc) ==
  IF doc.shape # "array" THEN << >>
  ELSE Flatten([i \in 1..Len(doc.clusters) |->
         [j \in 1..Len(doc.clusters[i].suburbs) |-> << doc.clusters[i].slug, doc.clusters[i].suburbs[j] >>]])

\* the lines one adjacency entry from -> neighbors contributes
integrityEntryFindings(e, s2c) ==
  IF ~(e.src \in DOMAIN s2c)
  THEN << Msg("Missing suburb in clusters", e.src, NoStr, NoStr, << >>) >>
  ELSE Flatten([i \in 1..Len(e.list) |->
         LET to == e.list[i]
         IN  IF ~(to \in DOMAIN s2c)
             THEN << Msg("Missing neighbor in clusters", e.src, to, NoStr, << >>) >>
             ELSE IF s2c[e.src] # s2c[to]
             THEN << Msg("cross-cluster edge", e.src, to, NoStr, << >>) >>
             ELSE << >>])

\* run(): the whole adjacency-vs-cluster integrity check
IntegrityRun ==
  /\ prog = "integrity" /\ pc = "run"
  /\ IF ~clustersDoc.ok \/ ~adjacencyDoc.ok
     THEN /\ console' = Append(console, Msg("not found", NoStr, NoStr, NoStr, << >>))
          /\ Exit(1)
          /\ UNCHANGED << suburbToCluster, tally >>
     ELSE LET idx     == buildSuburb2cluster(clusterPairs(clustersDoc),
                           [suburb2cluster |-> EmptyMap, duplicates |-> << >>])
              s2c     == idx.suburb2cluster
              lines   == Flatten([i \in 1..Len(adjacencyDoc.entries) |->
                           integrityEntryFindings(adjacencyDoc.entries[i], s2c)])
              missing == Count(lines, LAMBDA m : m.kind \in {"Missing suburb in clusters",
                                                              "Missing neighbor in clusters"})
              cross   == Count(lines, LAMBDA m : m.kind = "cross-cluster edge")
              dupLines == [i \in 1..Len(idx.duplicates) |->
                            Msg("Duplicate suburb", idx.duplicates[i], NoStr, NoStr, << >>)]
              breakdownThrows == clustersDoc.shape = "array"
                                 /\ \E i \in 1..Len(clustersDoc.clusters) : ~clustersDoc.clusters[i].hasSuburbs
          IN  /\ suburbToCluster' = s2c
              /\ tally' = [NoTally EXCEPT !.missing = missing, !.cross = cross, !.duplicates = Len(idx.duplicates)]
              /\ IF breakdownThrows
                 THEN /\ console' = console \o dupLines \o lines \o << Msg("Error", NoStr, NoStr, NoStr, << >>) >>
                      /\ Exit(1)
                 ELSE IF missing > 0 \/ Len(idx.duplicates) > 0
                 THEN /\ console' = console \o dupLines \o lines
                                    \o << Msg("Graph-data integrity FAILED", NoStr, NoStr, NoStr, << >>) >>
                      /\ Exit(1)
                 ELSE /\ console' = console \o lines
                                    \o << Msg("Graph data integrity OK", NoStr, NoStr, NoStr, << >>) >>
                      /\ Exit(0)
  /\ UNCHANGED << inputs, clusterToSuburbs, adj, dr, km >>

\* ------------------------------------------------------------------ validate-coverage
\* known: the lower-cased slug (or name) of every suburb entry
knownSuburbs(doc) ==
  { toLowerCase(IF p[2].kind = "str" THEN p[2].slug
                ELSE IF Truthy(p[2].slug) THEN p[2].slug ELSE p[2].name) :
    p \in Range(clusterPairs(doc)) }

\* problems that stop at the first unknown reference
coverageProblems_firstOnly(cov, known) ==
  LET all == Flatten([i \in 1..Len(cov) |->
               SelectSeq([j \in 1..Len(cov[i].entries) |-> << cov[i].svc, cov[i].entries[j] >>],
                         LAMBDA p : ~(p[2] \in known))])
  IN  IF all = << >> THEN << >> ELSE << Head(all) >>

\* problems: every << service, suburb >> reference outside known
coverageProblems(cov, known) ==
  Flatten([i \in 1..Len(cov) |->
    SelectSeq([j \in 1..Len(cov[i].entries) |-> << cov[i].svc, cov[i].entries[j] >>],
              LAMBDA p : ~(p[2] \in known))])

\* the whole validate-coverage script
ValidateCoverageRun ==
  /\ prog = "validate-coverage" /\ pc = "run"
  /\ LET throws == \/ ~clustersDoc.ok
                   \/ clustersDoc.shape # "array"
                   \/ \E p \in Range(clusterPairs(clustersDoc)) :
                        p[2].kind = "obj" /\ ~Truthy(p[2].slug) /\ ~Truthy(p[2].name)
         problems == coverageProblems(coverage, knownSuburbs(clustersDoc))
     IN  IF throws
         THEN /\ console' = Append(console, Msg("Error", NoStr, NoStr, NoStr, << >>))
              /\ Exit(1)
         ELSE IF Len(problems) > 0 /\ ~env.GEO_ALLOW_MISSING
         THEN /\ console' = Append(console, Msg("Coverage validation failed", NoStr, NoStr, NoStr, problems))
              /\ Exit(1)
         ELSE IF Len(problems) > 0
         THEN /\ console' = Append(console, Msg("Coverage validation warnings", NoStr, NoStr, NoStr, problems))
              /\ Exit(0)
         ELSE /\ console' = Append(console, Msg("Coverage validation passed", NoStr, NoStr, NoStr, << >>))
              /\ Exit(0)
  /\ UNCHANGED << inputs, suburbToCluster, clusterToSuburbs, adj, tally, dr, km >>

\* ------------------------------------------------------------------ enforce-cross-cluster
\* [k, v].sort().join('::')
pairKey(k, v) == IF StrLess(v, k) THEN << v, k >> ELSE << k, v >>

\* WL: the whitelisted pairs, each under its sorted key
whitelistKeys(cfg) == { pairKey(cfg.whitelistEdges[i].from, cfg.whitelistEdges[i].to) :
                        i \in 1..Len(cfg.whitelistEdges) }

\* (s.slug || s.name) of a suburb entry; a bare string has neither property
slugOrName(e) == IF e.kind = "obj" THEN (IF Truthy(e.slug) THEN e.slug ELSE e.name) ELSE << >>

\* map: lower-cased slug or name -> cluster slug, the last entry of a key winning
RECURSIVE enforceMap(_, _)
enforceMap(pairs, acc) ==
  IF pairs = << >> THEN acc
  ELSE enforceMap(Tail(pairs), MapSet(acc, toLowerCase(slugOrName(Head(pairs)[2])), Head(pairs)[1]))

\* a filter that lets every edge between known suburbs through
keepEdge_anyKnown(map, WL, k, v) == Truthy(MapGet(map, k)) /\ Truthy(MapGet(map, v))

\* the filter callback: does the edge k -> v stay
keepEdge(map, WL, k, v) ==
  LET kc == MapGet(map, k)
      vc == MapGet(map, v)
  IN  IF ~Truthy(kc) \/ ~Truthy(vc) THEN FALSE
      ELSE IF kc = vc THEN TRUE
      ELSE pairKey(k, v) \in WL

\* dropped++: a removed edge between two known suburbs
countsAsDropped(map, WL, k, v) ==
  /\ Truthy(MapGet(map, k)) /\ Truthy(MapGet(map, v))
  /\ MapGet(map, k) # MapGet(map, v)
  /\ pairKey(k, v) \notin WL

\* a pass that leaves out the sources that keep no neighbour
cleanedOf_withoutEmptied(entries, map, WL) ==
  SelectSeq([i \in 1..Len(entries) |->
               [src |-> entries[i].src,
                list |-> SelectSeq(entries[i].list, LAMBDA v : keepEdge(map, WL, entries[i].src, v))]],
            LAMBDA e : e.list # << >>)

\* cleaned: every source with the neighbours that stay, in list order
cleanedOf(entries, map, WL) ==
  [i \in 1..Len(entries) |->
     [src |-> entries[i].src,
      list |-> SelectSeq(entries[i].list, LAMBDA v : keepEdge(map, WL, entries[i].src, v))]]

droppedOf(entries, map, WL) ==
  SumSeq([i \in 1..Len(entries) |->
            Count(entries[i].list, LAMBDA v : countsAsDropped(map, WL, entries[i].src, v))])

\* the reads and loops that throw: no clusters array, a cluster without suburbs, a suburb
\* entry without slug and name, an adjacency value without filter()
enforceThrows(clusters, adjFile) ==
  \/ clusters.shape # "array"
  \/ \E i \in 1..Len(clusters.clusters) : ~clusters.clusters[i].hasSuburbs
  \/ \E p \in Range(clusterPairs(clusters)) : ~Truthy(slugOrName(p[2]))
  \/ \E i \in 1..Len(adjFile.entries) : adjFile.entries[i].kind # "array"

EnforceRun ==
  /\ prog = "enforce" /\ pc = "run"
  /\ IF ~cfgDoc.ok
     THEN /\ console' = Append(console, Msg("No geo.config.json found", NoStr, NoStr, NoStr, << >>))
          /\ Exit(1)
          /\ UNCHANGED << adj, tally >>
     ELSE IF ~adjacencyDoc.ok \/ ~clustersDoc.ok
     THEN /\ console' = Append(console, Msg("Missing adjacency or clusters file", NoStr, NoStr, NoStr, << >>))
          /\ Exit(1)
          /\ UNCHANGED << adj, tally >>
     ELSE IF enforceThrows(clustersDoc, adjacencyDoc)
     THEN /\ console' = Append(console, Msg("TypeError", NoStr, NoStr, NoStr, << >>))
          /\ Exit(1)
          /\ UNCHANGED << adj, tally >>
     ELSE LET map == enforceMap(clusterPairs(clustersDoc), EmptyMap)
              WL  == whitelistKeys(cfgDoc)
          IN  /\ adj' = cleanedOf(adjacencyDoc.entries, map, WL)
              /\ tally' = [NoTally EXCEPT !.dropped = droppedOf(adjacencyDoc.entries, map, WL)]
              /\ console' = Append(console, Msg("enforced cross-cluster adjacency", NoStr, NoStr, NoStr, << >>))
              /\ Exit(0)
  /\ UNCHANGED << inputs, suburbToCluster, clusterToSuburbs, dr, km >>

\* the adjacency file as the pass left it: every value an array
writtenEntries(cleaned) ==
  [i \in 1..Len(cleaned) |-> [src |-> cleaned[i].src, kind |-> "array", list |-> cleaned[i].list]]

\* the script run once more, on the adjacency file it wrote and the same clusters and config
EnforceRerun ==
  /\ prog = "enforce" /\ pc = "exit" /\ exitCode = << 0 >>
  /\ LET map == enforceMap(clusterPairs(clustersDoc), EmptyMap)
         WL  == whitelistKeys(cfgDoc)
     IN  /\ adj' = cleanedOf(writtenEntries(adj), map, WL)
         /\ tally' = [NoTally EXCEPT !.dropped = droppedOf(writtenEntries(adj), map, WL)]
         /\ console' = Append(console, Msg("enforced cross-cluster adjacency", NoStr, NoStr, NoStr, << >>))
         /\ exitCode' = << 0 >>
         /\ pc' = "rerun"
  /\ UNCHANGED << inputs, suburbToCluster, clusterToSuburbs, dr, km >>

\* ------------------------------------------------------------------ the slugify implementations
\* String.prototype.trim
RECURSIVE trimStart(_)
trimStart(s) == IF s # << >> /\ Head(s) = " " THEN trimStart(Tail(s)) ELSE s

RECURSIVE trimEnd(_)
trimEnd(s) == IF s # << >> /\ s[Len(s)] = " " THEN trimEnd(SubSeq(s, 1, Len(s) - 1)) ELSE s

trim(s) == trimEnd(trimStart(s))

\* the character classes of the regular expressions: \s, - and [^a-z0-9]
InClass(X, ch) ==
  IF X = "space" THEN ch = " "
  ELSE IF X = "hyphen" THEN ch = "-"
  ELSE ~IsAlnum(ch)

\* .replace(/X+/g, '-') for a character class X: every run of X becomes one hyphen
RECURSIVE runsToHyphen(_, _)
runsToHyphen(s, X) ==
  IF s = << >> THEN << >>
  ELSE IF InClass(X, Head(s))
  THEN IF Len(s) >= 2 /\ InClass(X, s[2]) THEN runsToHyphen(Tail(s), X)
       ELSE << "-" >> \o runsToHyphen(Tail(s), X)
  ELSE << Head(s) >> \o runsToHyphen(Tail(s), X)

\* the facade's slugify with its last two replacements in the other order
slugifyFacade_collapseFirst(raw) ==
  LET kept == SelectSeq(toLowerCase(trim(raw)), LAMBDA ch : IsAlnum(ch) \/ ch = " " \/ ch = "-")
  IN  runsToHyphen(runsToHyphen(kept, "hyphen"), "space")

\* clusters facade: trim, lower-case, drop what is not [a-z0-9\s-], white space to '-', '-' runs to '-'
slugifyFacade(raw) ==
  LET kept == SelectSeq(toLowerCase(trim(raw)), LAMBDA ch : IsAlnum(ch) \/ ch = " " \/ ch = "-")
  IN  runsToHyphen(runsToHyphen(kept, "space"), "hyphen")

\* .replace(/^-|-$/g, ''): one leading and one trailing hyphen go
stripEdgeHyphen(s) ==
  LET a == IF s # << >> /\ Head(s) = "-" THEN Tail(s) ELSE s
  IN  IF a # << >> /\ a[Len(a)] = "-" THEN SubSeq(a, 1, Len(a) - 1) ELSE a

\* sync script: trim, lower-case, runs of non letters/digits to '-', '-' runs to '-', strip the edges
slugifySync(s) ==
  stripEdgeHyphen(runsToHyphen(runsToHyphen(toLowerCase(trim(s)), "other"), "hyphen"))

\* the length of the run of hyphens s starts with
RECURSIVE hyphenRun(_)
hyphenRun(s) == IF s # << >> /\ Head(s) = "-" THEN 1 + hyphenRun(Tail(s)) ELSE 0

\* .replace(/^-|-$|(--)+/g, '-'): a leading hyphen, a trailing hyphen and every run of
\* hyphen pairs are each replaced by one hyphen
RECURSIVE edgeOrPairsToHyphen(_, _)
edgeOrPairsToHyphen(s, atStart) ==
  IF s = << >> THEN << >>
  ELSE IF Head(s) # "-" THEN << Head(s) >> \o edgeOrPairsToHyphen(Tail(s), FALSE)
  ELSE IF atStart \/ Len(s) = 1 THEN << "-" >> \o edgeOrPairsToHyphen(Tail(s), FALSE)
  ELSE IF hyphenRun(s) >= 2
  THEN << "-" >> \o edgeOrPairsToHyphen(SubSeq(s, 2 * (hyphenRun(s) \div 2) + 1, Len(s)), FALSE)
  ELSE << "-" >> \o edgeOrPairsToHyphen(Tail(s), FALSE)

\* true-geo importer: lower-case, runs of non [a-z0-9] to '-', then the edge/pairs replacement
slugifyImport(s) == edgeOrPairsToHyphen(runsToHyphen(toLowerCase(s), "other"), TRUE)

\* the implementation a call names
slugifyBy(impl, s) ==
  IF impl = "facade" THEN slugifyFacade(s)
  ELSE IF impl = "sync" THEN slugifySync(s)
  ELSE IF impl = "import" THEN slugifyImport(s)
  ELSE slugifyIntegrity(StrEntry(s))

facadeUnchanged ==
  UNCHANGED << inputs, suburbToCluster, clusterToSuburbs, adj, tally, exitCode, dr, km >>

\* slugify(raw)
Slugify ==
  /\ prog = "slugify" /\ pc = "call"
  /\ console' = << Msg("return", slugifyBy(env.impl, env.raw), NoStr, NoStr, << >>) >>
  /\ pc' = "again"
  /\ facadeUnchanged

\* slugify applied to the slug it returned
SlugifyAgain ==
  /\ prog = "slugify" /\ pc = "again"
  /\ console' = Append(console, Msg("return", slugifyBy(env.impl, console[1].a), NoStr, NoStr, << >>))
  /\ pc' = "done"
  /\ facadeUnchanged

\* ------------------------------------------------------------------ Geo Doctor: load and checks
\* a finding pushed on issues.missing / .schema / .referential / .warnings
Finding(cat, kind, a, b) == [cat |-> cat, kind |-> kind, a |-> a, b |-> b]

isStr(x) == x # << >> /\ \E i \in 1..Len(x) : x[i] # " "

isNum(x) == Len(x) = 1

\* s.slug of a suburb entry: a bare string has no slug property
slugProp(e) == IF e.kind = "obj" THEN e.slug ELSE << >>

\* suburbBySlug, a Map in insertion order: a sequence of [slug, name, lat, lng, cluster]
SbHas(sb, slug) == \E i \in 1..Len(sb) : sb[i].slug = slug

SbGet(sb, slug) == sb[CHOOSE i \in 1..Len(sb) : sb[i].slug = slug]

SbSet(sb, r) ==
  IF SbHas(sb, r.slug)
  THEN [i \in 1..Len(sb) |-> IF sb[i].slug = r.slug THEN r ELSE sb[i]]
  ELSE Append(sb, r)

SbKeys(sb) == [i \in 1..Len(sb) |-> sb[i].slug]

\* the loop over the suburbs of one cluster
RECURSIVE indexSuburbs(_, _, _)
indexSuburbs(list, cSlug, acc) ==
  IF list = << >> THEN acc
  ELSE LET s  == Head(list)
           sl == slugProp(s)
           f  == (IF ~isStr(sl) THEN << Finding("schema", "suburb missing slug", cSlug, NoStr) >> ELSE << >>)
                 \o (IF ~isStr(s.name) THEN << Finding("schema", "suburb missing name", sl, NoStr) >> ELSE << >>)
                 \o (IF SbHas(acc.suburbBySlug, sl)
                     THEN << Finding("schema", "duplicate suburb slug", sl, NoStr) >> ELSE << >>)
       IN  indexSuburbs(Tail(list), cSlug,
             [acc EXCEPT !.findings = @ \o f,
                         !.suburbBySlug = SbSet(@, [slug |-> sl, name |-> s.name, lat |-> s.lat,
                                                    lng |-> s.lng, cluster |-> cSlug])])

\* the loop over clusters.data.clusters
RECURSIVE indexClusterList(_, _)
indexClusterList(cs, acc) ==
  IF cs = << >> THEN acc
  ELSE LET c == Head(cs)
       IN  IF ~isStr(c.slug)
           THEN indexClusterList(Tail(cs),
                  [acc EXCEPT !.findings = Append(@, Finding("schema", "cluster missing slug", NoStr, NoStr))])
           ELSE IF ~c.hasSuburbs
           THEN indexClusterList(Tail(cs),
                  [acc EXCEPT !.clusterSlugs = Append(@, c.slug),
                              !.findings = Append(@, Finding("schema", "cluster has no suburbs[]", c.slug, NoStr))])
           ELSE indexClusterList(Tail(cs),
                  indexSuburbs(c.suburbs, c.slug, [acc EXCEPT !.clusterSlugs = Append(@, c.slug)]))

\* the indexes: clusterSlugs, suburbBySlug and the findings of the cluster document
buildIndexes(clusters) ==
  LET acc0 == [findings |-> << >>, clusterSlugs |-> << >>, suburbBySlug |-> << >>]
  IN  IF ~clusters.ok
      THEN [acc0 EXCEPT !.findings = << Finding("missing", "clusters file", NoStr, NoStr) >>]
      ELSE IF clusters.shape # "array"
      THEN [acc0 EXCEPT !.findings = << Finding("schema", "must be {clusters: []}", NoStr, NoStr) >>]
      ELSE indexClusterList(clusters.clusters, acc0)

\* cluster_map.json against the cluster slugs
clusterMapFindings(clusterMap, clusterSlugs) ==
  IF clusterMap.ok
  THEN LET unknown == SelectSeq(clusterMap.keys, LAMBDA k : ~(k \in Range(clusterSlugs)))
       IN  [i \in 1..Len(unknown) |-> Finding("referential", "cluster_map unknown cluster", unknown[i], NoStr)]
  ELSE << Finding("warnings", "cluster_map.json missing", NoStr, NoStr) >>

\* adjacency checks
adjacencyFindings(adjFile, sb) ==
  IF ~adjFile.ok THEN << >>
  ELSE Flatten([i \in 1..Len(adjFile.entries) |->
         LET src  == adjFile.entries[i].src
             list == adjFile.entries[i].list
         IN  (IF ~SbHas(sb, src)
              THEN << Finding("referential", "adjacency source not in clusters", src, NoStr) >> ELSE << >>)
             \o (IF adjFile.entries[i].kind # "array"
                 THEN << Finding("schema", "adjacency must be string[]", src, NoStr) >>
                 ELSE Flatten([j \in 1..Len(list) |->
                        (IF list[j] = src
                         THEN << Finding("schema", "adjacency lists itself", src, NoStr) >> ELSE << >>)
                        \o (IF ~SbHas(sb, list[j])
                            THEN << Finding("referential", "adjacency target not in clusters", src, list[j]) >>
                            ELSE << >>)]))])

\* proximity checks
proximityFindings(prox, sb, LIMIT) ==
  IF ~prox.ok THEN << >>
  ELSE Flatten([i \in 1..Len(prox.nearby) |->
         LET src == prox.nearby[i].src
             arr == prox.nearby[i].list
         IN  IF ~SbHas(sb, src)
             THEN << Finding("referential", "proximity source not in clusters", src, NoStr) >>
             ELSE (IF Len(arr) > LIMIT
                   THEN << Finding("warnings", "proximity length exceeds limit", src, NoStr) >> ELSE << >>)
                  \o Flatten([j \in 1..Len(arr) |->
                       (IF ~isStr(arr[j])
                        THEN << Finding("schema", "proximity item missing slug", src, NoStr) >> ELSE << >>)
                       \o (IF arr[j] = src
                           THEN << Finding("schema", "proximity contains self", src, NoStr) >> ELSE << >>)
                       \o (IF \E k \in 1..(j - 1) : arr[k] = arr[j]
                           THEN << Finding("schema", "proximity duplicate", src, arr[j]) >> ELSE << >>)
                       \o (IF Truthy(arr[j]) /\ ~SbHas(sb, arr[j])
                           THEN << Finding("referential", "proximity target not in clusters", src, arr[j]) >>
                           ELSE << >>)])])

\* coordinate sanity
coordinateFindings(sb) ==
  LET missLatLng == Count(sb, LAMBDA r : ~isNum(r.lat) \/ ~isNum(r.lng))
      badRange   == Count(sb, LAMBDA r : /\ isNum(r.lat) /\ isNum(r.lng)
                                         /\ \/ r.lat[1] < -90 \/ r.lat[1] > 90
                                            \/ r.lng[1] < -180 \/ r.lng[1] > 180)
  IN  (IF missLatLng # 0 THEN << Finding("warnings", "suburbs missing lat/lng", NoStr, NoStr) >> ELSE << >>)
      \o (IF badRange # 0 THEN << Finding("schema", "out-of-range coordinates", NoStr, NoStr) >> ELSE << >>)

\* the four issue lists, each in the order its findings were pushed
issuesOf(findings) ==
  [missing     |-> SelectSeq(findings, LAMBDA f : f.cat = "missing"),
   schema      |-> SelectSeq(findings, LAMBDA f : f.cat = "schema"),
   referential |-> SelectSeq(findings, LAMBDA f : f.cat = "referential"),
   warnings    |-> SelectSeq(findings, LAMBDA f : f.cat = "warnings")]

\* program constants of the Doctor
DefaultLimit == 6
DefaultAdjacencyBoost == 24
DefaultClusterBoost == 200
DefaultBiasKm == 12
DefaultCrossPenalty == 200
R == 6371
BigCluster == 120

Max(a, b) == IF a >= b THEN a ELSE b
Abs(n) == IF n < 0 THEN 0 - n ELSE n

\* x ?? d on an optional number
OrElse(x, d) == IF x = << >> THEN d ELSE x[1]

\* LIMIT: --limit when given and not 0, else nearby.limit of the config, else 6
limitOf(cfg, FORCE_LIMIT) ==
  IF FORCE_LIMIT # << >> /\ FORCE_LIMIT[1] # 0
  THEN Max(1, FORCE_LIMIT[1])
  ELSE Max(1, IF cfg.ok THEN OrElse(cfg.limit, DefaultLimit) ELSE DefaultLimit)

\* weights: read from the top level of the config document
weightsOf(cfg) ==
  [adjacencyBoost |-> IF cfg.ok THEN OrElse(cfg.adjacencyBoost, DefaultAdjacencyBoost) ELSE DefaultAdjacencyBoost,
   clusterBoost   |-> IF cfg.ok THEN OrElse(cfg.clusterBoost, DefaultClusterBoost) ELSE DefaultClusterBoost,
   biasKm         |-> IF cfg.ok THEN OrElse(cfg.biasKm, DefaultBiasKm) ELSE DefaultBiasKm,
   crossPenalty   |-> IF cfg.ok THEN OrElse(cfg.crossClusterPenalty, DefaultCrossPenalty) ELSE DefaultCrossPenalty]

\* ------------------------------------------------------------------ Geo Doctor: scoring and recompute
\* great-circle distance in whole km. Every suburb of the model lies on the equator (lat = 0),
\* where the haversine formula reduces to R * dLng in radians; pi/180 is taken as 157/9000.
haversineKm(A, B) ==
  LET d   == Abs(B.lng[1] - A.lng[1]) % 360
      eff == IF d <= 180 THEN d ELSE 360 - d
  IN  (R * eff * 157) \div 9000

isSameCluster(A, B) == Truthy(A.cluster) /\ Truthy(B.cluster) /\ A.cluster = B.cluster

\* adj.data?.[srcSlug] when it is an array, else []
neighborsOf(adjFile, srcSlug) ==
  IF adjFile.ok /\ \E i \in 1..Len(adjFile.entries) :
                      adjFile.entries[i].src = srcSlug /\ adjFile.entries[i].kind = "array"
  THEN adjFile.entries[CHOOSE i \in 1..Len(adjFile.entries) : adjFile.entries[i].src = srcSlug].list
  ELSE << >>

\* a cross-cluster pair that is merely un-boosted
scoreParts_unpenalized(A, B, adjFile, weights) ==
  [adjacency    |-> IF B.slug \in Range(neighborsOf(adjFile, A.slug)) THEN weights.adjacencyBoost ELSE 0,
   cluster      |-> IF isSameCluster(A, B) THEN weights.clusterBoost ELSE 0,
   crossPenalty |-> 0,
   distance     |-> IF isNum(A.lat) /\ isNum(A.lng) /\ isNum(B.lat) /\ isNum(B.lng)
                    THEN (0 - Abs(weights.biasKm)) * haversineKm(A, B) ELSE 0]

\* the parts of the score of dst as a neighbour of src; both are records of suburbBySlug
scoreParts(A, B, adjFile, weights) ==
  [adjacency    |-> IF B.slug \in Range(neighborsOf(adjFile, A.slug)) THEN weights.adjacencyBoost ELSE 0,
   cluster      |-> IF isSameCluster(A, B) THEN weights.clusterBoost ELSE 0,
   crossPenalty |-> IF isSameCluster(A, B) THEN 0 ELSE 0 - Abs(weights.crossPenalty),
   distance     |-> IF isNum(A.lat) /\ isNum(A.lng) /\ isNum(B.lat) /\ isNum(B.lng)
                    THEN (0 - Abs(weights.biasKm)) * haversineKm(A, B) ELSE 0]

scoreOfParts(parts) == parts.adjacency + parts.cluster + parts.distance + parts.crossPenalty

\* scorePair for two slugs that suburbBySlug holds
scorePair(sb, adjFile, weights, srcSlug, dstSlug) ==
  LET parts == scoreParts(SbGet(sb, srcSlug), SbGet(sb, dstSlug), adjFile, weights)
  IN  [score |-> scoreOfParts(parts), parts |-> parts]

\* name || slug
nameOr(r) == IF Truthy(r.name) THEN r.name ELSE r.slug

\* Array.prototype.sort with (x, y) => y.score - x.score: stable, descending score
RECURSIVE InsertByScore(_, _)
InsertByScore(x, sorted) ==
  IF sorted = << >> THEN << x >>
  ELSE IF Head(sorted).score >= x.score
       THEN << Head(sorted) >> \o InsertByScore(x, Tail(sorted))
       ELSE << x >> \o sorted

RECURSIVE SortByScore(_)
SortByScore(pool) ==
  IF pool = << >> THEN << >>
  ELSE InsertByScore(pool[Len(pool)], SortByScore(SubSeq(pool, 1, Len(pool) - 1)))

\* slice(0, n)
Take(seq, n) == SubSeq(seq, 1, IF n < Len(seq) THEN n ELSE Len(seq))

\* the candidates of src in the order of suburbBySlug.keys(), each with its score
scoredPool(sb, adjFile, weights, srcSlug) ==
  LET others == SelectSeq(sb, LAMBDA r : r.slug # srcSlug)
  IN  [i \in 1..Len(others) |->
        [slug |-> others[i].slug, name |-> nameOr(others[i]),
         score |-> scorePair(sb, adjFile, weights, srcSlug, others[i].slug).score]]

recomputeNearby(sb, adjFile, weights, srcSlug, max) ==
  IF ~SbHas(sb, srcSlug) THEN << >>
  ELSE LET top == Take(SortByScore(scoredPool(sb, adjFile, weights, srcSlug)), max)
       IN  [i \in 1..Len(top) |-> [slug |-> top[i].slug, name |-> top[i].name]]

Slugs(list) == [i \in 1..Len(list) |-> list[i].slug]

\* prox.data.nearby[s] when it is there, else []
proxOf(prox, s) ==
  IF prox.ok /\ \E i \in 1..Len(prox.nearby) : prox.nearby[i].src = s
  THEN prox.nearby[CHOOSE i \in 1..Len(prox.nearby) : prox.nearby[i].src = s].list
  ELSE << >>

DiffSample == 60
DiffShown == 5

\* the sampled suburbs, each with its curated list (pre) and its recomputed list (rec)
sampleSuburbs(sb, adjFile, weights, prox, LIMIT) ==
  LET sample == Take(SbKeys(sb), Max(1, IF DiffSample < Len(sb) THEN DiffSample ELSE Len(sb)))
  IN  [i \in 1..Len(sample) |->
        [suburb |-> sample[i],
         pre |-> proxOf(prox, sample[i]),
         rec |-> Slugs(recomputeNearby(sb, adjFile, weights, sample[i], LIMIT))]]

\* the proximity diff of the sampled suburbs
proximityDiffs(sampled) ==
  LET all == [i \in 1..Len(sampled) |->
                [suburb |-> sampled[i].suburb,
                 missingFromPre |-> Take(SelectSeq(sampled[i].rec, LAMBDA s : ~(s \in Range(sampled[i].pre))),
                                         DiffShown),
                 extrasInPre    |-> Take(SelectSeq(sampled[i].pre, LAMBDA s : ~(s \in Range(sampled[i].rec))),
                                         DiffShown)]]
  IN  SelectSeq(all, LAMBDA d : d.missingFromPre # << >> \/ d.extrasInPre # << >>)

\* ------------------------------------------------------------------ Geo Doctor: stats, repair, reports
\* the edges of the adjacency document, in document order
edgesOf(adjFile) ==
  Flatten([i \in 1..Len(adjFile.entries) |->
            [j \in 1..Len(adjFile.entries[i].list) |->
               [src |-> adjFile.entries[i].src, dst |-> adjFile.entries[i].list[j]]]])

clusterOrNone(sb, s) == IF SbHas(sb, s) THEN SbGet(sb, s).cluster ELSE << >>

\* the statistics with every edge counted as reciprocal
aggregateStats_allReciprocal(sb, adjFile) ==
  LET edges == IF adjFile.ok THEN edgesOf(adjFile) ELSE << >>
  IN  [totalEdges |-> Len(edges),
       crossEdges |-> Count(edges, LAMBDA e : /\ Truthy(clusterOrNone(sb, e.src))
                                              /\ Truthy(clusterOrNone(sb, e.dst))
                                              /\ clusterOrNone(sb, e.src) # clusterOrNone(sb, e.dst)),
       reciprocal |-> Len(edges),
       reciprocityRate |-> IF Len(edges) # 0 THEN [num |-> Len(edges), den |-> Len(edges)]
                           ELSE [num |-> 0, den |-> 1]]

\* totalEdges, crossEdges, reciprocal and reciprocityRate, the rate as a fraction num/den
aggregateStats(sb, adjFile) ==
  LET edges == IF adjFile.ok THEN edgesOf(adjFile) ELSE << >>
      reciprocal == Count(edges, LAMBDA e : e.src \in Range(neighborsOf(adjFile, e.dst)))
  IN  [totalEdges |-> Len(edges),
       crossEdges |-> Count(edges, LAMBDA e : /\ Truthy(clusterOrNone(sb, e.src))
                                              /\ Truthy(clusterOrNone(sb, e.dst))
                                              /\ clusterOrNone(sb, e.src) # clusterOrNone(sb, e.dst)),
       reciprocal |-> reciprocal,
       reciprocityRate |-> IF Len(edges) # 0 THEN [num |-> reciprocal, den |-> Len(edges)]
                           ELSE [num |-> 0, den |-> 1]]

\* for (const dst of list) over a value that is not iterable throws
statsThrows(adjFile) ==
  adjFile.ok /\ \E i \in 1..Len(adjFile.entries) : adjFile.entries[i].kind # "array"

clusterSizes(clusterSlugs, sb) ==
  [i \in 1..Len(clusterSlugs) |->
     [slug |-> clusterSlugs[i], n |-> Count(sb, LAMBDA r : r.cluster = clusterSlugs[i])]]

bigClusterFindings(sizes) ==
  IF \E i \in 1..Len(sizes) : sizes[i].n >= BigCluster
  THEN << Finding("warnings", "large clusters detected", NoStr, NoStr) >> ELSE << >>

\* a repair that keeps a curated slug every time it occurs
RECURSIVE keepCurated_repeats(_, _, _, _, _)
keepCurated_repeats(current, s, sb, LIMIT, keep) ==
  IF current = << >> \/ Len(keep) >= LIMIT THEN keep
  ELSE LET it == Head(current)
       IN  IF ~isStr(it) \/ it = s \/ ~SbHas(sb, it)
           THEN keepCurated_repeats(Tail(current), s, sb, LIMIT, keep)
           ELSE keepCurated_repeats(Tail(current), s, sb, LIMIT, Append(keep, it))

\* the curated entries of one suburb that the repair keeps
RECURSIVE keepCurated(_, _, _, _, _)
keepCurated(current, s, sb, LIMIT, keep) ==
  IF current = << >> \/ Len(keep) >= LIMIT THEN keep
  ELSE LET it == Head(current)
       IN  IF ~isStr(it) \/ it = s \/ ~SbHas(sb, it) \/ it \in Range(keep)
           THEN keepCurated(Tail(current), s, sb, LIMIT, keep)
           ELSE keepCurated(Tail(current), s, sb, LIMIT, Append(keep, it))

\* the recomputed candidates that fill the list up
RECURSIVE fillFrom(_, _, _, _, _)
fillFrom(rec, s, sb, LIMIT, keep) ==
  IF rec = << >> \/ Len(keep) >= LIMIT THEN keep
  ELSE LET it == Head(rec)
       IN  IF it = s \/ ~SbHas(sb, it) \/ it \in Range(keep)
           THEN fillFrom(Tail(rec), s, sb, LIMIT, keep)
           ELSE fillFrom(Tail(rec), s, sb, LIMIT, Append(keep, it))

fixedNearbyOf(sb, adjFile, weights, prox, LIMIT, s) ==
  LET keep == keepCurated(proxOf(prox, s), s, sb, LIMIT, << >>)
      full == IF Len(keep) < LIMIT
              THEN fillFrom(Slugs(recomputeNearby(sb, adjFile, weights, s, LIMIT * 2)), s, sb, LIMIT, keep)
              ELSE keep
  IN  Take(full, LIMIT)

fixedNearby(sb, adjFile, weights, prox, LIMIT) ==
  [i \in 1..Len(sb) |->
     [suburb |-> sb[i].slug, list |-> fixedNearbyOf(sb, adjFile, weights, prox, LIMIT, sb[i].slug)]]

NoIssues == [missing |-> << >>, schema |-> << >>, referential |-> << >>, warnings |-> << >>]

\* the splitter before it has read anything
NoSplit == [K |-> 0, idx |-> 0, subs |-> << >>, centroids |-> << >>, newC |-> << >>,
            buckets |-> << >>, iter |-> 0, stopped |-> FALSE]

NoDoctor ==
  [LIMIT |-> 0, weights |-> weightsOf([ok |-> FALSE]), issues |-> NoIssues,
   clusterSlugs |-> << >>, suburbBySlug |-> << >>, sampled |-> << >>, diffs |-> << >>,
   stats |-> [totalEdges |-> 0, crossEdges |-> 0, reciprocal |-> 0,
             reciprocityRate |-> [num |-> 0, den |-> 1]],
   fixed |-> << >>, written |-> {}, report |-> << >>, previous |-> << >>]

doctorUnchanged ==
  UNCHANGED << prog, env, clustersDoc, adjacencyDoc, coverage, proxDoc, cfgDoc, clusterMapDoc,
               suburbToCluster, clusterToSuburbs, adj, tally, km >>

\* read the five documents, build the indexes and collect the issues
DoctorLoad ==
  /\ prog = "doctor" /\ pc = "load"
  /\ LET LIMIT == limitOf(cfgDoc, env.FORCE_LIMIT)
         idx   == buildIndexes(clustersDoc)
         all   == idx.findings
                  \o clusterMapFindings(clusterMapDoc, idx.clusterSlugs)
                  \o adjacencyFindings(adjacencyDoc, idx.suburbBySlug)
                  \o proximityFindings(proxDoc, idx.suburbBySlug, LIMIT)
                  \o coordinateFindings(idx.suburbBySlug)
     IN  dr' = [dr EXCEPT !.LIMIT = LIMIT, !.weights = weightsOf(cfgDoc), !.issues = issuesOf(all),
                          !.clusterSlugs = idx.clusterSlugs, !.suburbBySlug = idx.suburbBySlug]
  /\ pc' = "diff"
  /\ UNCHANGED << console, exitCode >>
  /\ doctorUnchanged

\* proximity diff of the sample
DoctorDiff ==
  /\ prog = "doctor" /\ pc = "diff"
  /\ LET sampled == sampleSuburbs(dr.suburbBySlug, adjacencyDoc, dr.weights, proxDoc, dr.LIMIT)
     IN  dr' = [dr EXCEPT !.sampled = sampled, !.diffs = proximityDiffs(sampled)]
  /\ pc' = "stats"
  /\ UNCHANGED << console, exitCode >>
  /\ doctorUnchanged

\* aggregate stats and the big-cluster hint; an adjacency value that cannot be iterated ends the process
DoctorStats ==
  /\ prog = "doctor" /\ pc = "stats"
  /\ IF statsThrows(adjacencyDoc)
     THEN /\ console' = Append(console, Msg("TypeError", NoStr, NoStr, NoStr, << >>))
          /\ exitCode' = << 1 >>
          /\ pc' = "exit"
          /\ dr' = dr
     ELSE /\ dr' = [dr EXCEPT !.stats = aggregateStats(dr.suburbBySlug, adjacencyDoc),
                              !.issues.warnings =
                                 @ \o bigClusterFindings(clusterSizes(dr.clusterSlugs, dr.suburbBySlug))]
          /\ pc' = "outputs"
          /\ UNCHANGED << console, exitCode >>
  /\ doctorUnchanged

\* the proximity input, and the file the fixed snapshot goes to
pProx == [dir |-> "src/data", name |-> "proximity.json"]

\* the fixed snapshot written over the proximity input
fixedFile_overInput == [dir |-> "src/data", name |-> "proximity.json"]

fixedFile == [dir |-> "__ai", name |-> "geo-proximity-fixed.json"]

\* out(p, data) as the proximity input sees it: only a write to pProx replaces it
proxAfterOut(p, prox, fixed) ==
  IF p = pProx
  THEN [ok |-> TRUE, nearby |-> [i \in 1..Len(fixed) |-> [src |-> fixed[i].suburb, list |-> fixed[i].list]]]
  ELSE prox

\* the optional outputs: explain, graph, fixed proximity
DoctorOutputs ==
  /\ prog = "doctor" /\ pc = "outputs"
  /\ LET explain == IF Truthy(env.EXPLAIN) /\ SbHas(dr.suburbBySlug, env.EXPLAIN) THEN {"geo-explain.json"} ELSE {}
         graph   == IF env.GRAPH /\ adjacencyDoc.ok THEN {"geo-adjacency.dot"} ELSE {}
         fixedF  == IF env.WRITE THEN {fixedFile.name} ELSE {}
         fixed   == IF env.WRITE
                    THEN fixedNearby(dr.suburbBySlug, adjacencyDoc, dr.weights, proxDoc, dr.LIMIT)
                    ELSE << >>
     IN  /\ dr' = [dr EXCEPT !.written = @ \cup explain \cup graph \cup fixedF, !.fixed = fixed]
         /\ proxDoc' = IF env.WRITE THEN proxAfterOut(fixedFile, proxDoc, fixed) ELSE proxDoc
  /\ pc' = "report"
  /\ UNCHANGED << console, exitCode >>
  /\ UNCHANGED << prog, env, clustersDoc, adjacencyDoc, coverage, cfgDoc, clusterMapDoc,
                  suburbToCluster, clusterToSuburbs, adj, tally, km >>

\* smoke paths, the JSON report, the diff file and the text report
DoctorReport ==
  /\ prog = "doctor" /\ pc = "report"
  /\ dr' = [dr EXCEPT !.written = @ \cup {"smoke-paths.json", "geo-report.json",
                                          "geo-proximity-diff.json", "geo-report.txt"},
                      !.report = << [issues |-> dr.issues, stats |-> dr.stats, diffs |-> Take(dr.diffs, 200)] >>]
  /\ console' = Append(console, Msg("geo-doctor report", NoStr, NoStr, NoStr, << >>))
  /\ pc' = "verdict"
  /\ UNCHANGED exitCode
  /\ doctorUnchanged

\* a verdict that overlooks the referential issues
fatalOf_schemaOnly(clusters, issues) ==
  (IF ~clusters.ok THEN << "clusters missing/invalid" >> ELSE << >>)
  \o (IF Len(issues.schema) # 0 THEN << "schema errors" >> ELSE << >>)

\* the fatal conditions of the exit verdict
fatalOf(clusters, issues) ==
  (IF ~clusters.ok THEN << "clusters missing/invalid" >> ELSE << >>)
  \o (IF Len(issues.schema) # 0 THEN << "schema errors" >> ELSE << >>)
  \o (IF Len(issues.referential) # 0 THEN << "referential errors" >> ELSE << >>)

DoctorVerdict ==
  /\ prog = "doctor" /\ pc = "verdict"
  /\ LET fatal == fatalOf(clustersDoc, dr.issues)
     IN  IF env.STRICT /\ Len(fatal) # 0
         THEN /\ console' = Append(console, Msg("strict mode fail", NoStr, NoStr, NoStr, << >>))
              /\ exitCode' = << 1 >>
         ELSE /\ console' = Append(console, Msg("done", NoStr, NoStr, NoStr, << >>))
              /\ exitCode' = << 0 >>
  /\ pc' = "exit"
  /\ dr' = dr
  /\ doctorUnchanged

\* what a finished run computed and wrote
runOutcome(d, code) ==
  [issues |-> d.issues, stats |-> d.stats, diffs |-> d.diffs, report |-> d.report,
   clusters |-> Len(d.clusterSlugs), suburbs |-> Len(d.suburbBySlug),
   written |-> d.written, exitCode |-> code]

\* the Doctor started once more, with the same flags, on the files as the first run left them
DoctorRerun ==
  /\ prog = "doctor" /\ pc = "exit" /\ dr.previous = << >>
  /\ dr' = [NoDoctor EXCEPT !.previous = << runOutcome(dr, exitCode) >>]
  /\ console' = << >>
  /\ exitCode' = << >>
  /\ pc' = "load"
  /\ doctorUnchanged

\* ------------------------------------------------------------------ the clusters facade
\* the cluster alias table is not part of these sources: every dataset slug is
\* taken to be its own canonical slug
toCanonicalCluster(sl) == sl

FacadeDefaultLimit == 6

\* one entry of c.suburbs as a SuburbItem
suburbItem(e) ==
  IF e.kind = "str"
  THEN [slug |-> slugifyFacade(e.slug), lat |-> << >>, lng |-> << >>]
  ELSE [slug |-> slugifyFacade(IF Truthy(e.slug) THEN e.slug ELSE e.name), lat |-> e.lat, lng |-> e.lng]

suburbItems(c) == [i \in 1..Len(c.suburbs) |-> suburbItem(c.suburbs[i])]

\* clusterByDatasetSlug, a Map in insertion order: a sequence of [slug, suburbs]
RECURSIVE clusterByDatasetSlug(_, _)
clusterByDatasetSlug(RAW, acc) ==
  IF RAW = << >> THEN acc
  ELSE clusterByDatasetSlug(Tail(RAW),
         SbSet(acc, [slug |-> slugifyFacade(Head(RAW).slug), suburbs |-> suburbItems(Head(RAW))]))

\* suburbIndex and suburbToDatasetCluster as one Map: [slug, lat, lng, cluster]
RECURSIVE facadeIndexSuburbs(_, _, _)
facadeIndexSuburbs(items, ds, acc) ==
  IF items = << >> THEN acc
  ELSE facadeIndexSuburbs(Tail(items), ds,
         SbSet(acc, [slug |-> Head(items).slug, lat |-> Head(items).lat,
                     lng |-> Head(items).lng, cluster |-> ds]))

RECURSIVE suburbIndex(_, _)
suburbIndex(RAW, acc) ==
  IF RAW = << >> THEN acc
  ELSE suburbIndex(Tail(RAW),
         facadeIndexSuburbs(suburbItems(Head(RAW)), slugifyFacade(Head(RAW).slug), acc))

\* ADJ: keys and values lower-cased, both document shapes taken
RECURSIVE ADJ(_, _)
ADJ(entries, acc) ==
  IF entries = << >> THEN acc
  ELSE LET e == Head(entries)
       IN  ADJ(Tail(entries),
               MapSet(acc, toLowerCase(e.src), [i \in 1..Len(e.list) |-> toLowerCase(e.list[i])]))

ADJOf(adjFile) == IF adjFile.ok THEN ADJ(adjFile.entries, EmptyMap) ELSE EmptyMap

\* findSuburbBySlug: the item, or << >> for null
findSuburbBySlug(index, slug) ==
  IF SbHas(index, toLowerCase(slug)) THEN << SbGet(index, toLowerCase(slug)) >> ELSE << >>

getClusterForSuburbSync(index, slug) ==
  IF SbHas(index, toLowerCase(slug))
  THEN LET ds == SbGet(index, toLowerCase(slug)).cluster
       IN  IF Truthy(toCanonicalCluster(ds)) THEN toCanonicalCluster(ds) ELSE ds
  ELSE << >>

\* dedupe: the first item of every slug
dedupe(list) ==
  SelectSeq([i \in 1..Len(list) |-> [item |-> list[i], first |-> \A k \in 1..(i - 1) : list[k].slug # list[i].slug]],
            LAMBDA x : x.first)

listSuburbsForClusterSyncAsObjects(clusters, clusterSlug) ==
  LET canonical == toCanonicalCluster(clusterSlug)
      own == SelectSeq(clusters, LAMBDA c : toCanonicalCluster(c.slug) = canonical)
      out == Flatten([i \in 1..Len(own) |-> own[i].suburbs])
      d   == dedupe(out)
  IN  IF ~Truthy(canonical) THEN << >> ELSE [i \in 1..Len(d) |-> d[i].item]

isFinite(x) == Len(x) = 1

\* hav: << >> stands for Infinity
hav(a, b) ==
  IF isFinite(a.lat) /\ isFinite(a.lng) /\ isFinite(b.lat) /\ isFinite(b.lng)
  THEN << haversineKm(a, b) >>
  ELSE << >>

\* a.d - b.d < 0
nearer(da, db) == da # << >> /\ (db = << >> \/ da[1] < db[1])

\* Array.prototype.sort, stable, for a comparator given as "x goes before y"
RECURSIVE insertItem(_, _, _)
insertItem(sorted, x, src) ==
  IF sorted = << >> THEN << x >>
  ELSE LET before == IF src = << >> THEN StrLess(x.slug, Head(sorted).slug)
                     ELSE nearer(hav(src[1], x), hav(src[1], Head(sorted)))
       IN  IF before THEN << x >> \o sorted
           ELSE << Head(sorted) >> \o insertItem(Tail(sorted), x, src)

RECURSIVE sortItems(_, _)
sortItems(list, src) ==
  IF list = << >> THEN << >>
  ELSE insertItem(sortItems(SubSeq(list, 1, Len(list) - 1), src), list[Len(list)], src)

\* rankByDistance with the list left as it came
rankByDistance_unsorted(src, list) == list

\* rankByDistance: by slug when src has no coordinates, else by distance from src
rankByDistance(src, list) ==
  IF ~isFinite(src.lat) \/ ~isFinite(src.lng) THEN sortItems(list, << >>)
  ELSE sortItems(list, << src >>)

getNearbySuburbs(clusters, index, adjMap, suburbSlug, optLimit) ==
  LET found == findSuburbBySlug(index, suburbSlug)
      src   == found[1]
      limit == Max(1, IF optLimit = << >> THEN FacadeDefaultLimit ELSE optLimit[1])
      raw   == MapGet(adjMap, src.slug)
      hits  == SelectSeq([i \in 1..Len(raw) |-> findSuburbBySlug(index, raw[i])], LAMBDA f : f # << >>)
      near  == [i \in 1..Len(hits) |-> hits[i][1]]
      canonical == getClusterForSuburbSync(index, src.slug)
      pool  == IF Truthy(canonical)
               THEN SelectSeq(listSuburbsForClusterSyncAsObjects(clusters, canonical),
                              LAMBDA s : s.slug # src.slug /\ \A i \in 1..Len(near) : near[i].slug # s.slug)
               ELSE << >>
  IN  IF found = << >> THEN << >>
      ELSE IF Len(near) >= limit THEN Take(near, limit)
      ELSE Take(near \o rankByDistance(src, pool), limit)

RAWOf(doc) == doc.clusters

\* getNearbySuburbs(suburbSlug, { limit })
GetNearbySuburbs ==
  /\ prog = "getNearbySuburbs" /\ pc = "call"
  /\ console' = << Msg("return", NoStr, NoStr, NoStr,
                       Slugs(getNearbySuburbs(clusterByDatasetSlug(RAWOf(clustersDoc), << >>),
                                              suburbIndex(RAWOf(clustersDoc), << >>),
                                              ADJOf(adjacencyDoc), env.suburbSlug, env.limit))) >>
  /\ pc' = "done"
  /\ facadeUnchanged

\* COVERAGE[service], or << >> for undefined
coverageOf(COVERAGE, service) ==
  IF \E i \in 1..Len(COVERAGE) : COVERAGE[i].svc = service
  THEN << COVERAGE[CHOOSE i \in 1..Len(COVERAGE) : COVERAGE[i].svc = service].entries >>
  ELSE << >>

\* isCovered with an empty list taken as no restriction
isCovered_emptyOpen(COVERAGE, service, suburbSlug) ==
  LET found == coverageOf(COVERAGE, service)
  IN  found = << >> \/ found[1] = << >> \/
      \E i \in 1..Len(found[1]) : toLowerCase(found[1][i]) = toLowerCase(suburbSlug)

isCovered(COVERAGE, service, suburbSlug) ==
  LET found == coverageOf(COVERAGE, service)
  IN  IF found = << >> THEN TRUE
      ELSE \E i \in 1..Len(found[1]) : toLowerCase(found[1][i]) = toLowerCase(suburbSlug)

\* isCovered(service, suburbSlug)
IsCovered ==
  /\ prog = "isCovered" /\ pc = "call"
  /\ console' = << Msg(IF isCovered(coverage, env.service, env.suburbSlug) THEN "return true" ELSE "return false",
                       NoStr, NoStr, NoStr, << >>) >>
  /\ pc' = "done"
  /\ facadeUnchanged

\* normalizeClustersShape(doc): the document in shape (a); an array document
\* is returned as it was parsed, a record's suburbs become { slug } objects
normalizeClustersShape(doc) ==
  IF doc.shape = "array" THEN doc.clusters
  ELSE [i \in 1..Len(doc.clusters) |->
         [slug |-> doc.clusters[i].slug, hasSuburbs |-> TRUE,
          suburbs |-> [j \in 1..Len(doc.clusters[i].suburbs) |->
                         ObjEntry(doc.clusters[i].suburbs[j].slug, << >>, << >>, << >>)]]]

\* normalizeClustersShape(doc), or the ZodError of ClustersUnion.parse
NormalizeClustersShape ==
  /\ prog = "normalizeClustersShape" /\ pc = "call"
  /\ console' = << IF ClustersUnionOK(clustersDoc)
                   THEN Msg("return", NoStr, NoStr, NoStr, normalizeClustersShape(clustersDoc))
                   ELSE Msg("ZodError", NoStr, NoStr, NoStr, << >>) >>
  /\ pc' = "done"
  /\ facadeUnchanged

\* ------------------------------------------------------------------ split-cluster
\* K when the environment gives none
SplitDefaultK == 3

\* the rounds of the refinement loop
MaxRounds == 50

\* the convergence tolerance 1e-6, as its inverse
PerTolerance == 1000000

DefaultCluster == << "b", "r", "i", "s", "b", "a", "n", "e", "-", "c", "i", "t", "y" >>

DefaultBaseSlug == << "b", "r", "i", "s", "b", "a", "n", "e" >>

labels == << << "i", "n", "n", "e", "r", "-", "n", "o", "r", "t", "h" >>,
            << "w", "e", "s", "t" >>,
            << "b", "a", "y", "s", "i", "d", "e" >>,
            << "s", "o", "u", "t", "h" >>,
            << "e", "a", "s", "t" >>,
            << "n", "o", "r", "t", "h" >> >>

Digits == << "0", "1", "2", "3", "4", "5", "6", "7", "8", "9" >>

\* a non-negative integer as a template literal prints it
RECURSIVE decimal(_)
decimal(n) ==
  IF n < 10 THEN << Digits[n + 1] >>
  ELSE decimal(n \div 10) \o << Digits[(n % 10) + 1] >>

\* labels[k] || `part-${k+1}`, k counted from 0
labelOf(k) ==
  IF k < Len(labels) THEN labels[k + 1] ELSE << "p", "a", "r", "t", "-" >> \o decimal(k + 1)

splitK == IF Truthy(env.K) THEN env.K[1] ELSE SplitDefaultK

splitTarget == toLowerCase(IF Truthy(env.CLUSTER) THEN env.CLUSTER ELSE DefaultCluster)

splitBaseSlug == toLowerCase(IF Truthy(env.BASE_SLUG) THEN env.BASE_SLUG ELSE DefaultBaseSlug)

\* a search that settles for the first cluster when none bears the slug
findIndex_orFirst(clusters, target) ==
  IF \E i \in 1..Len(clusters) : clusters[i].slug = target
  THEN CHOOSE i \in 1..Len(clusters) :
         /\ clusters[i].slug = target
         /\ \A j \in 1..(i - 1) : clusters[j].slug # target
  ELSE IF clusters = << >> THEN 0 ELSE 1

\* doc.clusters.findIndex(c => c.slug === TARGET), counted from 1; 0 when none
findIndex(clusters, target) ==
  IF \E i \in 1..Len(clusters) : clusters[i].slug = target
  THEN CHOOSE i \in 1..Len(clusters) :
         /\ clusters[i].slug = target
         /\ \A j \in 1..(i - 1) : clusters[j].slug # target
  ELSE 0

\* the suburbs of a cluster that carry a finite lat and a finite lng
coordSuburbs(suburbs) ==
  SelectSeq(suburbs, LAMBDA s : s.kind = "obj" /\ isFinite(s.lat) /\ isFinite(s.lng))

\* a centroid is the point (lat / d, lng / d): a suburb's own coordinates have
\* d = 1, a mean keeps the sum and the count apart so that the arithmetic is exact
pointOf(s) == [lat |-> s.lat[1], lng |-> s.lng[1], d |-> 1]

\* the first centroids: every floor(n / K)-th suburb, the first K of them
initialCentroids(subs, K) ==
  IF K = 0 THEN << >>
  ELSE LET step == Len(subs) \div K
           picked == SelectSeq([i \in 1..Len(subs) |-> i], LAMBDA i : (i - 1) % step = 0)
       IN  [k \in 1..K |-> pointOf(subs[picked[k]])]

\* dist(a, b) of a suburb to a centroid, times the square of the centroid's d
distTimes(s, c) ==
  LET dx == s.lat[1] * c.d - c.lat
      dy == s.lng[1] * c.d - c.lng
  IN  dx * dx + dy * dy

\* dist(pt, c1) < dist(pt, c2)
closer(s, c1, c2) == distTimes(s, c1) * c2.d * c2.d < distTimes(s, c2) * c1.d * c1.d

\* the same scan with `<=`: the last of equally near centroids wins
RECURSIVE scanNearest_lastWins(_, _, _, _)
scanNearest_lastWins(s, cs, k, b) ==
  IF k > Len(cs) THEN b
  ELSE scanNearest_lastWins(s, cs, k + 1, IF b = 0 \/ ~closer(s, cs[b], cs[k]) THEN k ELSE b)

\* the scan `if (d < bd) { bd = d; best = k; }` from centroid k on; b is the
\* best so far, 0 while bd is still Infinity
RECURSIVE scanNearest(_, _, _, _)
scanNearest(s, cs, k, b) ==
  IF k > Len(cs) THEN b
  ELSE scanNearest(s, cs, k + 1, IF b = 0 \/ closer(s, cs[k], cs[b]) THEN k ELSE b)

\* assignBucket(s), counted from 1
assignBucket(s, cs) == scanNearest(s, cs, 1, 0)

\* the buckets of one round: every suburb pushed to its nearest centroid's
bucketsOf(subs, cs) ==
  [k \in 1..Len(cs) |-> SelectSeq(subs, LAMBDA s : assignBucket(s, cs) = k)]

\* the centroid of a bucket as though an empty bucket had its centroid at the origin
recentre_emptyToOrigin(c, bucket) ==
  [lat |-> SumSeq([i \in 1..Len(bucket) |-> bucket[i].lat[1]]),
   lng |-> SumSeq([i \in 1..Len(bucket) |-> bucket[i].lng[1]]),
   d   |-> Max(1, Len(bucket))]

\* newC[k]: the centroid kept for an empty bucket, else the mean of the bucket
recentre(c, bucket) ==
  IF bucket = << >> THEN c
  ELSE [lat |-> SumSeq([i \in 1..Len(bucket) |-> bucket[i].lat[1]]),
        lng |-> SumSeq([i \in 1..Len(bucket) |-> bucket[i].lng[1]]),
        d   |-> Len(bucket)]

\* Math.abs(a - b) < 1e-6 on both coordinates
within(a, b) ==
  /\ Abs(a.lat * b.d - b.lat * a.d) * PerTolerance < a.d * b.d
  /\ Abs(a.lng * b.d - b.lng * a.d) * PerTolerance < a.d * b.d

\* the test that ends the loop early
settled(newC, cs) == \A k \in 1..Len(cs) : within(newC[k], cs[k])

\* the K sub-clusters built from the final centroids
newClusters(subs, cs, K, base) ==
  [k \in 1..K |->
     [slug |-> base \o << "-" >> \o labelOf(k - 1), hasSuburbs |-> TRUE,
      suburbs |-> SelectSeq(subs, LAMBDA s : assignBucket(s, cs) = k)]]

\* the target removed and the new clusters pushed at the end
splice_atEnd(clusters, idx, new) ==
  SubSeq(clusters, 1, idx - 1) \o SubSeq(clusters, idx + 1, Len(clusters)) \o new

\* doc.clusters.splice(idx, 1, ...newClusters)
splice(clusters, idx, new) ==
  SubSeq(clusters, 1, idx - 1) \o new \o SubSeq(clusters, idx + 1, Len(clusters))

splitUnchanged ==
  UNCHANGED << prog, env, adjacencyDoc, coverage, proxDoc, cfgDoc, clusterMapDoc,
               suburbToCluster, clusterToSuburbs, adj, tally, dr >>

\* lines 10-24: read the environment and the document, find the target, keep
\* its coordinate-bearing suburbs and seed the centroids
SplitStart ==
  /\ prog = "split" /\ pc = "run"
  /\ splitUnchanged /\ UNCHANGED clustersDoc
  /\ IF ~clustersDoc.ok
     THEN /\ console' = Append(console, Msg("Missing areas.clusters.json", NoStr, NoStr, NoStr, << >>))
          /\ Exit(1) /\ UNCHANGED km
     ELSE IF clustersDoc.shape # "array"
     THEN /\ console' = Append(console, Msg("TypeError", NoStr, NoStr, NoStr, << >>))
          /\ Exit(1) /\ UNCHANGED km
     ELSE LET idx == findIndex(clustersDoc.clusters, splitTarget)
          IN  IF idx = 0
              THEN /\ console' = Append(console, Msg("Cluster not found", splitTarget, NoStr, NoStr, << >>))
                   /\ Exit(1) /\ UNCHANGED km
              ELSE IF ~clustersDoc.clusters[idx].hasSuburbs
              THEN /\ console' = Append(console, Msg("TypeError", NoStr, NoStr, NoStr, << >>))
                   /\ Exit(1) /\ UNCHANGED km
              ELSE LET subs == coordSuburbs(clustersDoc.clusters[idx].suburbs)
                   IN  IF Len(subs) < splitK
                       THEN /\ console' = Append(console, Msg("Not enough coord suburbs", NoStr, NoStr, NoStr, << >>))
                            /\ Exit(1) /\ UNCHANGED km
                       ELSE /\ km' = [K |-> splitK, idx |-> idx, subs |-> subs,
                                      centroids |-> initialCentroids(subs, splitK),
                                      newC |-> << >>, buckets |-> << >>,
                                      iter |-> 0, stopped |-> FALSE]
                            /\ pc' = "kmeans"
                            /\ UNCHANGED << console, exitCode >>

\* lines 27-42: one round of the loop
SplitRound ==
  /\ prog = "split" /\ pc = "kmeans"
  /\ km.iter < MaxRounds /\ ~km.stopped
  /\ splitUnchanged /\ UNCHANGED clustersDoc
  /\ IF km.K = 0 /\ km.subs # << >>
     THEN \* buckets[0] is undefined when there is no centroid
          /\ console' = Append(console, Msg("TypeError", NoStr, NoStr, NoStr, << >>))
          /\ Exit(1) /\ UNCHANGED km
     ELSE LET buckets == bucketsOf(km.subs, km.centroids)
              newC    == [k \in 1..Len(km.centroids) |-> recentre(km.centroids[k], buckets[k])]
          IN  /\ km' = IF settled(newC, km.centroids)
                       THEN [km EXCEPT !.buckets = buckets, !.newC = newC, !.stopped = TRUE]
                       ELSE [km EXCEPT !.buckets = buckets, !.newC = newC,
                                       !.centroids = newC, !.iter = km.iter + 1]
              /\ UNCHANGED << pc, console, exitCode >>

\* lines 44-60: build the sub-clusters, replace the target, write the file
SplitWrite ==
  /\ prog = "split" /\ pc = "kmeans"
  /\ km.stopped \/ km.iter = MaxRounds
  /\ splitUnchanged /\ UNCHANGED km
  /\ LET new == newClusters(km.subs, km.centroids, km.K, splitBaseSlug)
     IN  /\ clustersDoc' = [clustersDoc EXCEPT !.clusters = splice(clustersDoc.clusters, km.idx, new)]
         /\ console' = Append(console, Msg("split", splitTarget, NoStr, NoStr,
                                           [k \in 1..Len(new) |-> new[k].slug]))
  /\ Exit(0)

\* ------------------------------------------------------------------ inputs of the validators
SeqUpTo(S, n) == UNION { [1..k -> S] : k \in 0..n }

Cluster(slug, suburbs) == [slug |-> slug, hasSuburbs |-> TRUE, suburbs |-> suburbs]

ClustersFile(shape, clusters) == [ok |-> TRUE, shape |-> shape, clusters |-> clusters]

\* raw suburb strings: two slugs and one string that is not in normal form
RawSuburbs == { << "a" >>, << "b" >>, << "a", "-" >> }

\* raw cluster slugs: two slugs and one key that is not lower-case
RawClusterSlugs == { << "n" >>, << "s" >>, << "N" >> }

\* one suburb, or two: distinct, in either order, equal, or equal once normalised
RawSuburbLists ==
  { << StrEntry(x) >> : x \in RawSuburbs }
    \cup { << StrEntry(p[1]), StrEntry(p[2]) >> :
           p \in { << << "a" >>, << "b" >> >>, << << "b" >>, << "a" >> >>,
                   << << "a" >>, << "a" >> >>, << << "a" >>, << "a", "-" >> >> } }

ClusterPool == { Cluster(k, l) : k \in RawClusterSlugs, l \in RawSuburbLists }

\* an object has no two equal keys
DistinctKeys(cs) == \A i \in 1..Len(cs) : \A j \in 1..Len(cs) : cs[i].slug = cs[j].slug => i = j

ClusterDocs ==
  { ClustersFile(sh, cs) : sh \in {"array", "record"},
                           cs \in { c \in SeqUpTo(ClusterPool, MaxClusters) : c # << >> } }

\* the catalog the adjacency and coverage inputs are validated against:
\* cluster n = {a, b}, cluster s = {c}, b given as an object with a name only
Catalog ==
  ClustersFile("array",
    << Cluster(<< "n" >>, << StrEntry(<< "a" >>), ObjEntry(<< >>, << "B" >>, << >>, << >>) >>),
       Cluster(<< "s" >>, << StrEntry(<< "c" >>) >>) >>)

NoFile == [ok |-> FALSE]

AdjSources == { << "a" >>, << "c" >>, << "z" >> }
AdjTargets == { << "b" >>, << "c" >>, << "z" >> }

AdjEntries(kind, n) ==
  { [src |-> s, kind |-> kind, list |-> l] : s \in AdjSources, l \in SeqUpTo(AdjTargets, n) }

AdjFile(entries) == [ok |-> TRUE, entries |-> entries]

\* one source, or two of which the second lists at most one neighbour
AdjacencyDocs ==
  { AdjFile(es) : es \in UNION { { << e >> : e \in AdjEntries(k, MaxAdjLen) }
                                 \cup { << p[1], p[2] >> :
                                        p \in { q \in AdjEntries(k, MaxAdjLen) \X AdjEntries(k, 1) :
                                                q[1].src # q[2].src } }
                                 : k \in {"array", "object"} } }

Services == { << "s" >>, << "z" >> }
CoverageTokens == { << "a" >>, << "b" >>, << "n" >>, << "z" >> }

CoverageEntries(n) == { [svc |-> s, entries |-> l] : s \in Services, l \in SeqUpTo(CoverageTokens, n) }

\* one service, or two of which the second lists at most one suburb
CoverageDocs ==
  { << e >> : e \in CoverageEntries(MaxCovLen) }
    \cup { << p[1], p[2] >> :
           p \in { q \in CoverageEntries(MaxCovLen) \X CoverageEntries(1) : q[1].svc # q[2].svc } }

Env(strictMode, allowMissing) ==
  [STRICT_MODE |-> strictMode, GEO_ALLOW_MISSING |-> allowMissing,
   STRICT |-> FALSE, WRITE |-> FALSE, GRAPH |-> FALSE, EXPLAIN |-> << >>, FORCE_LIMIT |-> << >>,
   SUGGEST_SPLIT_CLUSTER |-> << >>, SUGGEST_SPLIT_K |-> << >>]

StartPc(p) ==
  IF p = "validate-data" THEN "normalizeClusters" ELSE IF p = "doctor" THEN "load" ELSE "run"

Fresh ==
  /\ suburbToCluster = EmptyMap
  /\ clusterToSuburbs = EmptyMap
  /\ adj = << >>
  /\ tally = NoTally
  /\ console = << >>
  /\ exitCode = << >>
  /\ dr = NoDoctor
  /\ km = NoSplit

NoDoctorFiles ==
  /\ proxDoc = NoFile
  /\ cfgDoc = NoFile
  /\ clusterMapDoc = NoFile

\* cluster documents of every shape, nothing else to validate
InitClusters ==
  /\ prog = "validate-data"
  /\ clustersDoc \in { d \in ClusterDocs : d.shape = "record" => DistinctKeys(d.clusters) }
  /\ adjacencyDoc = AdjFile(<< >>)
  /\ coverage = << >>
  /\ env \in { Env(sm, FALSE) : sm \in BOOLEAN }

\* adjacency documents against the catalog
InitAdjacency ==
  /\ prog \in {"validate-data", "integrity"}
  /\ clustersDoc = Catalog
  /\ adjacencyDoc \in AdjacencyDocs
  /\ coverage = << >>
  /\ env \in { Env(FALSE, am) : am \in BOOLEAN }

\* coverage documents against the catalog
InitCoverage ==
  /\ prog \in {"validate-data", "validate-coverage"}
  /\ clustersDoc = Catalog
  /\ adjacencyDoc = AdjFile(<< >>)
  /\ coverage \in CoverageDocs
  /\ env \in { Env(FALSE, am) : am \in BOOLEAN }

Init ==
  /\ InitClusters \/ InitAdjacency \/ InitCoverage
  /\ pc = StartPc(prog)
  /\ NoDoctorFiles
  /\ Fresh

Next ==
  \/ NormalizeClusters
  \/ NormalizeAdjacency
  \/ ValidateAdjacencyAgainstClusters
  \/ ValidateCoverageTokens
  \/ IntegrityRun
  \/ ValidateCoverageRun

Spec == Init /\ [][Next]_vars

\* ------------------------------------------------------------------ inputs of the Geo Doctor
MaxLng == 1
MaxLimit == 1

DoctorEnv(strict, write, graph, explain, limit) ==
  [STRICT_MODE |-> FALSE, GEO_ALLOW_MISSING |-> FALSE,
   STRICT |-> strict, WRITE |-> write, GRAPH |-> graph, EXPLAIN |-> explain, FORCE_LIMIT |-> limit,
   SUGGEST_SPLIT_CLUSTER |-> << >>, SUGGEST_SPLIT_K |-> << >>]

SuggestSplitDefaultK == 3

\* --suggest-split <cluster>: K is read from the argument named by the cluster slug, 3 by default
SuggestSplit(e, cluster) ==
  [e EXCEPT !.SUGGEST_SPLIT_CLUSTER = cluster, !.SUGGEST_SPLIT_K = << SuggestSplitDefaultK >>]

\* geo.config.json as the Doctor reads it: nearby.limit and the top-level weight keys
CfgFile(limit, adjacencyBoost, clusterBoost, biasKm, crossClusterPenalty) ==
  [ok |-> TRUE, limit |-> limit, adjacencyBoost |-> adjacencyBoost, clusterBoost |-> clusterBoost,
   biasKm |-> biasKm, crossClusterPenalty |-> crossClusterPenalty]

ProxFile(nearby) == [ok |-> TRUE, nearby |-> nearby]

ClusterMapFile(keys) == [ok |-> TRUE, keys |-> keys]

\* a suburb on the equator, with or without coordinates
Suburb(sl, ln) == ObjEntry(sl, sl, IF ln = << >> THEN << >> ELSE << 0 >>, ln)

NoCluster(cs) == SelectSeq(cs, LAMBDA c : c.suburbs # << >>)

ScoreSlugs == { << "a" >>, << "b" >>, << "c" >> }

ScoreOrders == { o \in [1..3 -> ScoreSlugs] : \A i \in 1..3 : \A j \in 1..3 : o[i] = o[j] => i = j }

ScoreLngs == { << >> } \cup { << k >> : k \in 0..MaxLng }

\* three suburbs in any document order, the first k of them in cluster n and the rest in cluster s
ScoreCatalogs ==
  { ClustersFile("array",
      NoCluster(<< Cluster(<< "n" >>, [i \in 1..k |-> Suburb(o[i], ln[o[i]])]),
                   Cluster(<< "s" >>, [i \in 1..(3 - k) |-> Suburb(o[k + i], ln[o[k + i]])]) >>)) :
    o \in ScoreOrders, k \in 0..3, ln \in [ScoreSlugs -> ScoreLngs] }

\* no adjacency, or the neighbours of a
ScoreAdjacency ==
  { AdjFile(<< >>) }
    \cup { AdjFile(<< [src |-> << "a" >>, kind |-> "array", list |-> l] >>) :
           l \in { << >>, << << "b" >> >>, << << "c" >> >>, << << "b" >>, << "c" >> >>,
                   << << "c" >>, << "b" >> >>, << << "a" >> >> } }

\* no config (the default weights), all weights zero, weights with negative bias and penalty
ScoreConfigs ==
  { NoFile,
    CfgFile(<< >>, << 0 >>, << 0 >>, << 0 >>, << 0 >>),
    CfgFile(<< >>, << 24 >>, << 200 >>, << -1 >>, << -200 >>) }

\* catalogs, adjacency and weights for the scoring
InitScore ==
  /\ prog = "doctor"
  /\ clustersDoc \in ScoreCatalogs
  /\ adjacencyDoc \in ScoreAdjacency
  /\ cfgDoc \in ScoreConfigs
  /\ proxDoc = NoFile
  /\ clusterMapDoc = NoFile
  /\ coverage = << >>
  /\ env = DoctorEnv(FALSE, FALSE, FALSE, << >>, << >>)
  /\ pc = StartPc(prog)
  /\ Fresh

NextDoctor ==
  \/ DoctorLoad
  \/ DoctorDiff
  \/ DoctorStats
  \/ DoctorOutputs
  \/ DoctorReport
  \/ DoctorVerdict

SpecScore == InitScore /\ [][NextDoctor]_vars

\* cluster n, complete or with a suburb that has no coordinates
FindingFirst ==
  { Cluster(<< "n" >>, << Suburb(<< "a" >>, << 0 >>), Suburb(<< "b" >>, << 1 >>) >>),
    Cluster(<< "n" >>, << Suburb(<< "a" >>, << 0 >>), Suburb(<< "b" >>, << >>) >>) }

\* a second cluster entry: sound, repeating a suburb, out of range, without a suburb slug,
\* a bare string, without a cluster slug, without suburbs[]
FindingSecond ==
  { Cluster(<< "s" >>, << Suburb(<< "c" >>, << 0 >>) >>),
    Cluster(<< "s" >>, << Suburb(<< "a" >>, << 0 >>) >>),
    Cluster(<< "s" >>, << Suburb(<< "c" >>, << 181 >>) >>),
    Cluster(<< "s" >>, << ObjEntry(<< >>, << "c" >>, << 0 >>, << 0 >>) >>),
    Cluster(<< "s" >>, << StrEntry(<< "c" >>) >>),
    Cluster(<< >>, << Suburb(<< "c" >>, << 0 >>) >>),
    [slug |-> << "s" >>, hasSuburbs |-> FALSE, suburbs |-> << >>] }

\* the clusters file: absent or unparseable, not of the {clusters: []} shape, or a list of clusters
FindingCatalogs ==
  { NoFile, ClustersFile("record", << >>), ClustersFile("array", << >>) }
    \cup { ClustersFile("array", << c >>) : c \in FindingFirst }
    \cup { ClustersFile("array", << c, d >>) : c \in FindingFirst, d \in FindingSecond }

FindingAdjacency ==
  { NoFile, AdjFile(<< >>) }
    \cup { AdjFile(<< [src |-> p[1], kind |-> "array", list |-> << p[2] >>] >>) :
           p \in { << << "a" >>, << "b" >> >>, << << "a" >>, << "c" >> >>, << << "a" >>, << "z" >> >>,
                   << << "z" >>, << "a" >> >>, << << "a" >>, << "a" >> >> } }
    \cup { AdjFile(<< [src |-> << "a" >>, kind |-> "object", list |-> << << "b" >> >>] >>),
           AdjFile(<< [src |-> << "a" >>, kind |-> "array", list |-> << << "b" >> >>],
                      [src |-> << "b" >>, kind |-> "array", list |-> << << "a" >> >>] >>),
           AdjFile(<< [src |-> << "a" >>, kind |-> "array", list |-> << << "b" >>, << "c" >> >>],
                      [src |-> << "b" >>, kind |-> "array", list |-> << << "a" >> >>] >>) }

FindingProximity ==
  { NoFile }
    \cup { ProxFile(<< [src |-> p[1], list |-> p[2]] >>) :
           p \in { << << "a" >>, << << "b" >> >> >>, << << "a" >>, << << "a" >> >> >>,
                   << << "a" >>, << << "b" >>, << "b" >> >> >>, << << "a" >>, << << "z" >> >> >>,
                   << << "z" >>, << << "a" >> >> >>, << << "a" >>, << << >> >> >>,
                   << << "a" >>, << << "b" >>, << "c" >> >> >> } }

FindingClusterMaps == { NoFile, ClusterMapFile(<< << "n" >> >>), ClusterMapFile(<< << "x" >> >>) }

FindingConfigs == { NoFile } \cup { CfgFile(<< k >>, << >>, << >>, << >>, << >>) : k \in 1..MaxLimit }

\* documents with every kind of finding, in strict and in non-strict mode
InitFindings ==
  /\ clustersDoc \in FindingCatalogs
  /\ adjacencyDoc \in FindingAdjacency
  /\ proxDoc \in FindingProximity
  /\ clusterMapDoc \in FindingClusterMaps
  /\ cfgDoc \in FindingConfigs
  /\ env \in { DoctorEnv(st, FALSE, FALSE, << >>, << >>) : st \in BOOLEAN }

\* catalogs for the optional outputs: two clusters, one cluster, a suburb without slug,
\* a suburb without coordinates
FlagCatalogs ==
  { ClustersFile("array", cs) :
    cs \in { << Cluster(<< "n" >>, << Suburb(<< "a" >>, << 0 >>), Suburb(<< "b" >>, << 1 >>) >>),
                Cluster(<< "s" >>, << Suburb(<< "c" >>, << 0 >>) >>) >>,
             << Cluster(<< "n" >>, << Suburb(<< "a" >>, << 0 >>), Suburb(<< "b" >>, << 1 >>) >>) >>,
             << Cluster(<< "n" >>, << Suburb(<< "a" >>, << 0 >>), Suburb(<< "b" >>, << 1 >>) >>),
                Cluster(<< "s" >>, << ObjEntry(<< >>, << "c" >>, << 0 >>, << 0 >>) >>) >>,
             << Cluster(<< "n" >>, << Suburb(<< "a" >>, << 0 >>), Suburb(<< "b" >>, << >>) >>),
                Cluster(<< "s" >>, << Suburb(<< "c" >>, << 0 >>) >>) >> } }

\* every combination of the flags, on every prior proximity snapshot
InitFlags ==
  /\ clustersDoc \in FlagCatalogs
  /\ adjacencyDoc \in { NoFile, AdjFile(<< [src |-> << "a" >>, kind |-> "array", list |-> << << "c" >> >>] >>) }
  /\ proxDoc \in FindingProximity
                 \cup { ProxFile(<< [src |-> << "a" >>, list |-> << << "c" >>, << "z" >>, << "c" >> >>] >>) }
  /\ clusterMapDoc = NoFile
  /\ cfgDoc = NoFile
  /\ env \in { DoctorEnv(st, wr, gr, ex, li) :
               st \in BOOLEAN, wr \in BOOLEAN, gr \in BOOLEAN,
               ex \in { << >>, << "a" >>, << "z" >> },
               li \in { << >> } \cup { << k >> : k \in 0..MaxLimit } }
             \cup { SuggestSplit(DoctorEnv(st, wr, FALSE, << >>, << >>), c) :
                    st \in BOOLEAN, wr \in BOOLEAN, c \in { << "n" >>, << "z" >> } }

InitDoctor ==
  /\ prog = "doctor"
  /\ InitFindings \/ InitFlags
  /\ coverage = << >>
  /\ pc = StartPc(prog)
  /\ Fresh

SpecDoctor == InitDoctor /\ [][NextDoctor]_vars

\* two runs in a row, over every combination of flags
InitDoctorTwice ==
  /\ prog = "doctor"
  /\ InitFlags
  /\ coverage = << >>
  /\ pc = StartPc(prog)
  /\ Fresh

NextDoctorTwice ==
  \/ DoctorLoad
  \/ DoctorDiff
  \/ DoctorStats
  \/ DoctorOutputs
  \/ DoctorReport
  \/ DoctorVerdict
  \/ DoctorRerun

SpecDoctorTwice == InitDoctorTwice /\ [][NextDoctorTwice]_vars

\* ------------------------------------------------------------------ inputs of enforce-cross-cluster
EnforceCfg(wl) == [ok |-> TRUE, whitelistEdges |-> wl]

\* cluster n = {a, b}, cluster s = {c}: objects with slugs, b by name only, c as a bare string,
\* cluster s without suburbs
EnforceCatalogs ==
  { NoFile,
    ClustersFile("array", << Cluster(<< "n" >>, << Suburb(<< "a" >>, << >>), Suburb(<< "b" >>, << >>) >>),
                             Cluster(<< "s" >>, << Suburb(<< "c" >>, << >>) >>) >>),
    ClustersFile("array", << Cluster(<< "n" >>, << Suburb(<< "a" >>, << >>),
                                                    ObjEntry(<< >>, << "B" >>, << >>, << >>) >>),
                             Cluster(<< "s" >>, << Suburb(<< "c" >>, << >>) >>) >>),
    ClustersFile("array", << Cluster(<< "n" >>, << Suburb(<< "a" >>, << >>), Suburb(<< "b" >>, << >>) >>),
                             Cluster(<< "s" >>, << StrEntry(<< "c" >>) >>) >>),
    ClustersFile("array", << Cluster(<< "n" >>, << Suburb(<< "a" >>, << >>), Suburb(<< "b" >>, << >>) >>),
                             [slug |-> << "s" >>, hasSuburbs |-> FALSE, suburbs |-> << >>] >>) }

EnforceNodes == { << "a" >>, << "b" >>, << "c" >>, << "z" >> }

EnforceSources == { << "a" >>, << "c" >>, << "z" >> }

\* one source, or two different ones of which the second lists at most one neighbour
EnforceAdjacency ==
  { NoFile, AdjFile(<< [src |-> << "a" >>, kind |-> "object", list |-> << << "c" >> >>] >>) }
    \cup { AdjFile(<< [src |-> s, kind |-> "array", list |-> l] >>) :
           s \in EnforceSources, l \in SeqUpTo(EnforceNodes, MaxAdjLen) }
    \cup { AdjFile(<< [src |-> p[1], kind |-> "array", list |-> l],
                      [src |-> p[2], kind |-> "array", list |-> m] >>) :
           p \in { q \in EnforceSources \X EnforceSources : q[1] # q[2] },
           l \in SeqUpTo(EnforceNodes, MaxAdjLen), m \in SeqUpTo(EnforceNodes, 1) }

EnforceWhitelists ==
  { << >>,
    << [from |-> << "a" >>, to |-> << "c" >>] >>,
    << [from |-> << "c" >>, to |-> << "a" >>] >>,
    << [from |-> << "b" >>, to |-> << "c" >>], [from |-> << "a" >>, to |-> << "z" >>] >> }

InitEnforce ==
  /\ prog = "enforce"
  /\ clustersDoc \in EnforceCatalogs
  /\ adjacencyDoc \in EnforceAdjacency
  /\ cfgDoc \in { NoFile } \cup { EnforceCfg(wl) : wl \in EnforceWhitelists }
  /\ proxDoc = NoFile
  /\ clusterMapDoc = NoFile
  /\ coverage = << >>
  /\ env = Env(FALSE, FALSE)
  /\ pc = StartPc(prog)
  /\ Fresh

NextEnforce ==
  \/ EnforceRun
  \/ EnforceRerun

SpecEnforce == InitEnforce /\ [][NextEnforce]_vars

\* ------------------------------------------------------------------ inputs of the library functions
MaxStrLen == 3

\* a space, punctuation, a hyphen, a digit, an upper-case and a lower-case letter
RawChars == { " ", "!", "-", "1", "A", "a" }

RawStrings == SeqUpTo(RawChars, MaxStrLen)

SlugifyCall(impl, raw) == [fn |-> "slugify", impl |-> impl, raw |-> raw]

NoDocuments ==
  /\ clustersDoc = NoFile
  /\ adjacencyDoc = NoFile
  /\ coverage = << >>

InitSlugify ==
  /\ prog = "slugify"
  /\ env \in { SlugifyCall(impl, raw) : impl \in {"facade", "sync", "import", "integrity"}, raw \in RawStrings }
  /\ NoDocuments

NearbyCall(suburbSlug, limit) == [fn |-> "getNearbySuburbs", suburbSlug |-> suburbSlug, limit |-> limit]

\* a, b and c in cluster n (b farther from a than c wherever both have coordinates), z in cluster s
NearbyCatalog(order, la, lb, lc) ==
  ClustersFile("array",
    << Cluster(<< "n" >>, [i \in 1..3 |-> IF order[i] = << "a" >> THEN Suburb(<< "a" >>, la)
                                         ELSE IF order[i] = << "b" >> THEN Suburb(<< "b" >>, lb)
                                         ELSE Suburb(<< "c" >>, lc)]),
       Cluster(<< "s" >>, << Suburb(<< "z" >>, << 1 >>) >>) >>)

NearbyCatalogs ==
  { NearbyCatalog(o, la, lb, lc) :
      o \in { << << "a" >>, << "b" >>, << "c" >> >>, << << "c" >>, << "a" >>, << "b" >> >>,
              << << "b" >>, << "c" >>, << "a" >> >> },
      la \in { << >>, << 0 >> }, lb \in { << >>, << 0 >>, << 2 >> }, lc \in { << >>, << 1 >> } }

\* neighbours of a: a itself, in its cluster, in the other cluster, unknown, in upper case
NearbyNodes == { << "a" >>, << "b" >>, << "z" >>, << "s" >>, << "C" >> }

NearbyAdjacency ==
  { NoFile }
    \cup { AdjFile(<< [src |-> << "a" >>, kind |-> "array", list |-> l] >>) : l \in SeqUpTo(NearbyNodes, MaxAdjLen) }
    \cup { AdjFile(<< [src |-> << "A" >>, kind |-> k, list |-> l] >>) :
           k \in {"array", "object"}, l \in SeqUpTo(NearbyNodes, 1) }

NearbyLimits == { << >>, << 0 >>, << 1 >>, << 2 >>, << 3 >> }

InitNearby ==
  /\ prog = "getNearbySuburbs"
  /\ env \in { NearbyCall(s, l) : s \in { << "a" >>, << "A" >>, << "z" >>, << "s" >> }, l \in NearbyLimits }
  /\ clustersDoc \in NearbyCatalogs
  /\ adjacencyDoc \in NearbyAdjacency
  /\ coverage = << >>

CoveredCall(service, suburbSlug) == [fn |-> "isCovered", service |-> service, suburbSlug |-> suburbSlug]

\* serviceCoverage.json of the validators, and lists that are not lower-case
FacadeCoverage ==
  CoverageDocs \cup { << [svc |-> << "s" >>, entries |-> << << "A" >> >>] >>,
                      << [svc |-> << "s" >>, entries |-> << << "b" >>, << "A" >> >>] >> }

InitCovered ==
  /\ prog = "isCovered"
  /\ env \in { CoveredCall(sv, sl) : sv \in { << "s" >>, << "z" >>, << "S" >> },
                                     sl \in { << "a" >>, << "A" >>, << "b" >>, << >> } }
  /\ clustersDoc = NoFile
  /\ adjacencyDoc = NoFile
  /\ coverage \in FacadeCoverage

ShapeCall == [fn |-> "normalizeClustersShape"]

\* documents of one cluster in either shape, and array documents whose suburbs
\* are objects, objects with a name only, or bare strings
ShapeDocs ==
  { d \in ClusterDocs : Len(d.clusters) = 1 } \cup (EnforceCatalogs \ { NoFile })

InitShape ==
  /\ prog = "normalizeClustersShape"
  /\ env = ShapeCall
  /\ clustersDoc \in ShapeDocs
  /\ adjacencyDoc = NoFile
  /\ coverage = << >>

InitFacade ==
  /\ InitSlugify \/ InitNearby \/ InitCovered \/ InitShape
  /\ pc = "call"
  /\ NoDoctorFiles
  /\ Fresh

NextFacade ==
  \/ Slugify
  \/ SlugifyAgain
  \/ GetNearbySuburbs
  \/ IsCovered
  \/ NormalizeClustersShape

SpecFacade == InitFacade /\ [][NextFacade]_vars

\* ------------------------------------------------------------------ inputs of split-cluster
\* most suburbs listed under the cluster to split
MaxSplitLen == 3

\* largest K given in the environment
MaxSplitK == 2

SplitEnv(K, cluster, base) == [K |-> K, CLUSTER |-> cluster, BASE_SLUG |-> base]

\* an object suburb at a position
At(sl, la, ln) == ObjEntry(sl, sl, << la >>, << ln >>)

\* suburbs a and b on one spot, c and n elsewhere, s without coordinates, z a bare string
SplitPool ==
  { At(<< "a" >>, 0, 0), At(<< "b" >>, 0, 0), At(<< "c" >>, 0, 1), At(<< "n" >>, 3, 1),
    ObjEntry(<< "s" >>, << "s" >>, << >>, << >>), StrEntry(<< "z" >>) }

\* a neighbouring cluster; it lists s too
SplitOther == Cluster(<< "z" >>, << ObjEntry(<< "s" >>, << "s" >>, << >>, << >>), At(<< "z" >>, 5, 5) >>)

\* documents around a target cluster b
SplitDocsOf(suburbs) ==
  { ClustersFile("array", << Cluster(<< "b" >>, suburbs) >>),
    ClustersFile("array", << SplitOther, Cluster(<< "b" >>, suburbs) >>),
    ClustersFile("array", << Cluster(<< "b" >>, suburbs), SplitOther, Cluster(<< "b" >>, << >>) >>) }

SplitKs == { << >> } \cup { << k >> : k \in 0..MaxSplitK }

\* the target split under every K
InitSplitLists ==
  /\ env \in { SplitEnv(K, << "b" >>, << "b" >>) : K \in SplitKs }
  /\ clustersDoc \in UNION { SplitDocsOf(suburbs) : suburbs \in SeqUpTo(SplitPool, MaxSplitLen) }

\* two pairs of suburbs, the pairs far apart, listed in any order
PairSuburbs(far) ==
  << At(<< "a" >>, 0, 0), At(<< "b" >>, 1, 0), At(<< "c" >>, 0, far), At(<< "n" >>, 1, far) >>

LinePairSuburbs == << At(<< "a" >>, 0, 0), At(<< "b" >>, 0, 1), At(<< "c" >>, 0, 10), At(<< "n" >>, 0, 11) >>

Orders(n) == { f \in [1..n -> 1..n] : \A i \in 1..n : \A j \in 1..n : f[i] = f[j] => i = j }

InitSplitPairs ==
  /\ env = SplitEnv(<< 2 >>, << "b" >>, << "b" >>)
  /\ clustersDoc \in
       { ClustersFile("array", << SplitOther, Cluster(<< "b" >>, [i \in 1..4 |-> four[f[i]]]) >>) :
           four \in { PairSuburbs(9), LinePairSuburbs }, f \in Orders(4) }

\* seven suburbs in a row
RowSuburbs ==
  << At(<< "a" >>, 0, 0), At(<< "b" >>, 0, 1), At(<< "c" >>, 0, 2), At(<< "n" >>, 0, 3),
     At(<< "s" >>, 0, 4), At(<< "z" >>, 0, 5), At(<< "1" >>, 0, 6) >>

\* defaults of the environment, upper-case names, more parts than labels, and
\* documents the splitter cannot read
InitSplitOdd ==
  \/ /\ env \in { SplitEnv(K, << >>, << >>) : K \in { << >>, << 1 >> } }
     /\ clustersDoc \in { ClustersFile("array", << Cluster(DefaultCluster, suburbs) >>) :
                            suburbs \in { SubSeq(RowSuburbs, 1, n) : n \in 1..3 } }
  \/ /\ env \in { SplitEnv(<< 2 >>, << "B" >>, base) : base \in { << "B" >>, << "N", "-", "b" >> } }
     /\ clustersDoc \in { ClustersFile("array", << Cluster(<< sl >>, SubSeq(RowSuburbs, 1, 2)) >>) :
                            sl \in { "b", "B" } }
  \/ /\ env \in { SplitEnv(<< k >>, << "b" >>, << "b" >>) : k \in { 7, 8 } }
     /\ clustersDoc = ClustersFile("array", << Cluster(<< "b" >>, RowSuburbs) >>)
  \/ /\ env \in { SplitEnv(K, << "b" >>, << "b" >>) : K \in SplitKs }
     /\ clustersDoc \in
          { NoFile,
            ClustersFile("record", << Cluster(<< "b" >>, SubSeq(RowSuburbs, 1, 2)) >>),
            ClustersFile("array", << >>),
            ClustersFile("array", << SplitOther >>),
            ClustersFile("array", << [slug |-> << "b" >>, hasSuburbs |-> FALSE, suburbs |-> << >>] >>) }
  \/ \* a suburb that ends up halfway between the two centroids
     /\ env = SplitEnv(<< 2 >>, << "b" >>, << "b" >>)
     /\ clustersDoc = ClustersFile("array", << Cluster(<< "b" >>, << RowSuburbs[3], RowSuburbs[4], RowSuburbs[1] >>) >>)

InitSplit ==
  /\ prog = "split" /\ pc = "run"
  /\ InitSplitLists \/ InitSplitPairs \/ InitSplitOdd
  /\ adjacencyDoc = NoFile
  /\ coverage = << >>
  /\ NoDoctorFiles
  /\ Fresh

NextSplit ==
  \/ SplitStart
  \/ SplitRound
  \/ SplitWrite

SpecSplit == InitSplit /\ [][NextSplit]_vars

\* ------------------------------------------------------------------ the catalog, as the claims speak of it
\* the suburb slugs listed under the i-th cluster of a document
ListedUnder(doc, i) == { slugify(e) : e \in Range(doc.clusters[i].suburbs) }

\* the slugs of the clusters that list suburb s
ClustersListing(doc, s) ==
  { slugifyStr(doc.clusters[i].slug) : i \in { j \in 1..Len(doc.clusters) : s \in ListedUnder(doc, j) } }

AllSuburbs(doc) == UNION { ListedUnder(doc, i) : i \in 1..Len(doc.clusters) }

AllClusterSlugs(doc) == { slugifyStr(doc.clusters[i].slug) : i \in 1..Len(doc.clusters) }

\* the suburbs listed under two clusters with different slugs
MultiListed(doc) == { s \in AllSuburbs(doc) : Cardinality(ClustersListing(doc, s)) > 1 }

\* some suburb is listed twice inside one cluster entry
HasIntraDuplicate(doc) ==
  \E i \in 1..Len(doc.clusters) :
    LET l == doc.clusters[i].suburbs
    IN  \E j \in 1..Len(l) : \E k \in 1..Len(l) : j # k /\ slugify(l[j]) = slugify(l[k])

\* every raw cluster slug and suburb string already is its own slug
AllNormalized(doc) ==
  \A i \in 1..Len(doc.clusters) :
    /\ doc.clusters[i].slug = slugifyStr(doc.clusters[i].slug)
    /\ \A e \in Range(doc.clusters[i].suburbs) : e.kind = "str" /\ e.slug = slugifyStr(e.slug)

\* no violation that normalizeClusters reports before it records a suburb
NoEarlierViolation == ClustersUnionOK(clustersDoc) /\ (env.STRICT_MODE => AllNormalized(clustersDoc))

NormalizeClustersRan == prog = "validate-data" /\ pc # "normalizeClusters"

NormalizeClustersFailed ==
  /\ NormalizeClustersRan /\ exitCode = << 1 >> /\ Len(console) = 1
  /\ console[1].kind \in {"clusters-schema", "non-slug-cluster", "non-slug-suburb",
                          "multiple-clusters", "duplicate-in-cluster"}

Last(seq) == seq[Len(seq)]

\* the directed edges of the adjacency document: << entry, position in its list >>
EdgeRefs ==
  { p \in (1..Len(adjacencyDoc.entries)) \X (1..(MaxAdjLen + 1)) :
      p[2] <= Len(adjacencyDoc.entries[p[1]].list) }

EdgeSrc(p) == adjacencyDoc.entries[p[1]].src
EdgeDst(p) == adjacencyDoc.entries[p[1]].list[p[2]]

ClusterOf(s) == CHOOSE c \in ClustersListing(clustersDoc, s) : TRUE

AllNodesKnown ==
  /\ \A i \in 1..Len(adjacencyDoc.entries) : adjacencyDoc.entries[i].src \in AllSuburbs(clustersDoc)
  /\ \A p \in EdgeRefs : EdgeDst(p) \in AllSuburbs(clustersDoc)

CrossEdges ==
  { p \in EdgeRefs : /\ EdgeSrc(p) \in AllSuburbs(clustersDoc)
                     /\ EdgeDst(p) \in AllSuburbs(clustersDoc)
                     /\ ClusterOf(EdgeSrc(p)) # ClusterOf(EdgeDst(p)) }

\* every reference to a suburb the catalog does not have: source keys and targets
MissingSources ==
  { i \in 1..Len(adjacencyDoc.entries) : ~(adjacencyDoc.entries[i].src \in AllSuburbs(clustersDoc)) }

MissingTargets == { p \in EdgeRefs : ~(EdgeDst(p) \in AllSuburbs(clustersDoc)) }

AdjacencyPassRan ==
  \/ /\ prog = "validate-data"
     /\ pc \in {"validateCoverage", "exit"}
     /\ ~NormalizeClustersFailed
     /\ ~(pc = "exit" /\ Last(console).kind = "adjacency-schema")
  \/ /\ prog = "integrity" /\ pc = "exit" /\ clustersDoc.ok /\ adjacencyDoc.ok

AdjacencyPassFailed ==
  \/ prog = "validate-data" /\ exitCode = << 1 >> /\ Last(console).kind = "graph invalid"
  \/ prog = "integrity" /\ exitCode = << 1 >>

CrossEdgeLines == Count(console, LAMBDA m : m.kind \in {"CROSS EDGE", "cross-cluster edge"})

\* C8: with tolerant mode off, an adjacency pass over a document whose nodes all
\* exist but which has cross-cluster edges counts and reports every such edge and
\* does not fail the run.
C8_CrossClusterEdgesNotFatal ==
  (AdjacencyPassRan /\ ~env.GEO_ALLOW_MISSING /\ AllNodesKnown /\ CrossEdges # {}) =>
    /\ tally.cross = Cardinality(CrossEdges)
    /\ CrossEdgeLines = Cardinality(CrossEdges)
    /\ ~AdjacencyPassFailed

\* C9: an adjacency pass counts every reference to a suburb the catalog lacks, a
\* missing source not hiding the missing targets under it, in default and in
\* tolerant mode; without tolerant mode a missing node fails the run, with it
\* the run does not fail.
C9_MissingNodesReportedIndependently ==
  AdjacencyPassRan =>
    /\ tally.missing = Cardinality(MissingSources) + Cardinality(MissingTargets)
    /\ (~env.GEO_ALLOW_MISSING /\ MissingSources \cup MissingTargets # {}) => AdjacencyPassFailed
    /\ env.GEO_ALLOW_MISSING => ~AdjacencyPassFailed

\* ------------------------------------------------------------------ coverage passes, as the claims speak of them
\* every << service, suburb >> reference of the coverage document, in order
CoverageRefs ==
  Flatten([i \in 1..Len(coverage) |->
            [j \in 1..Len(coverage[i].entries) |-> << coverage[i].svc, coverage[i].entries[j] >>]])

\* the references to a slug that no cluster lists as a suburb
RefsToNoSuburb == SelectSeq(CoverageRefs, LAMBDA r : ~(r[2] \in AllSuburbs(clustersDoc)))

\* the same, less the references validateCoverageTokens resolves to a cluster
RefsToNothing ==
  SelectSeq(CoverageRefs,
            LAMBDA r : /\ ~(r[2] \in AllSuburbs(clustersDoc))
                       /\ ~(prog = "validate-data" /\ r[2] \in AllClusterSlugs(clustersDoc)))

CoveragePassRan ==
  \/ prog = "validate-coverage" /\ pc = "exit" /\ Last(console).kind # "Error"
  \/ /\ prog = "validate-data" /\ pc = "exit"
     /\ Last(console).kind \in {"Unknown coverage tokens", "validate-data.zod OK"}

\* the outcome the claim gives a coverage pass whose unknown references are unknown
CoverageOutcome(unknown) ==
  CoveragePassRan =>
    /\ (unknown # << >> /\ ~env.GEO_ALLOW_MISSING) =>
         exitCode = << 1 >> /\ Last(console).list = unknown
    /\ (unknown # << >> /\ env.GEO_ALLOW_MISSING) =>
         /\ exitCode = << 0 >>
         /\ \E i \in 1..Len(console) :
              /\ console[i].kind \in {"Coverage validation warnings", "Coverage tokens unknown (warning)"}
              /\ console[i].list = unknown
    /\ unknown = << >> =>
         exitCode = << 0 >> /\ \A i \in 1..Len(console) : console[i].list = << >>

DoctorLoaded == prog = "doctor" /\ pc # "load"

DoctorSampled == prog = "doctor" /\ pc \notin {"load", "diff"}

DoctorExited == prog = "doctor" /\ pc = "exit"

\* the score the Doctor gives dst as a neighbour of src
ScoreOf(src, dst) == scorePair(dr.suburbBySlug, adjacencyDoc, dr.weights, src, dst).score

\* candidate x comes before candidate y: higher score, or equal score and smaller slug
Precedes(src, x, y) ==
  \/ ScoreOf(src, x) > ScoreOf(src, y)
  \/ ScoreOf(src, x) = ScoreOf(src, y) /\ StrLess(x, y)

Others(src) == { s \in Range(SbKeys(dr.suburbBySlug)) : s # src }

\* the place of candidate x among the candidates of src
RankOf(src, x) == 1 + Cardinality({ y \in Others(src) : Precedes(src, y, x) })

Min(a, b) == IF a <= b THEN a ELSE b

\* C2: the nearest list of every sampled source is the first LIMIT entries of
\* the other catalog suburbs in descending score, equal scores in ascending
\* slug order, whatever the order of the cluster document.
C2_NearestByScoreThenSlug ==
  DoctorSampled =>
    \A i \in 1..Len(dr.sampled) :
      LET src == dr.sampled[i].suburb
          rec == dr.sampled[i].rec
      IN  /\ Len(rec) = Min(dr.LIMIT, Cardinality(Others(src)))
          /\ \A k \in 1..Len(rec) : rec[k] \in Others(src) /\ RankOf(src, rec[k]) = k

\* b is in a's own adjacency list
ListsAsNeighbour(a, b) ==
  /\ adjacencyDoc.ok
  /\ \E i \in 1..Len(adjacencyDoc.entries) :
       adjacencyDoc.entries[i].src = a /\ b \in Range(adjacencyDoc.entries[i].list)

HasCoordinates(r) == isNum(r.lat) /\ isNum(r.lng)

\* the three terms of the score of b as a neighbour of a
AdjacencyTerm(a, b) == IF ListsAsNeighbour(a, b) THEN dr.weights.adjacencyBoost ELSE 0

ClusterTerm(A, B) ==
  IF A.cluster = B.cluster THEN dr.weights.clusterBoost ELSE 0 - Abs(dr.weights.crossPenalty)

DistanceTerm(A, B) ==
  IF HasCoordinates(A) /\ HasCoordinates(B) THEN 0 - Abs(dr.weights.biasKm) * haversineKm(A, B) ELSE 0

\* C3: the score of a pair is the adjacency term (directed lookup from the
\* source), plus the cluster boost or minus the absolute cross-cluster penalty,
\* minus the absolute bias times the distance when both have coordinates; a
\* candidate without coordinates has a zero distance term and stays a candidate.
C3_ScoreIsThreeTerms ==
  /\ DoctorLoaded =>
       \A A \in Range(dr.suburbBySlug) : \A B \in Range(dr.suburbBySlug) :
         ScoreOf(A.slug, B.slug) = AdjacencyTerm(A.slug, B.slug) + ClusterTerm(A, B) + DistanceTerm(A, B)
  /\ DoctorSampled =>
       \A i \in 1..Len(dr.sampled) :
         Cardinality(Others(dr.sampled[i].suburb)) <= dr.LIMIT
           => Range(dr.sampled[i].rec) = Others(dr.sampled[i].suburb)

\* a run scored a cross-cluster pair with coordinates that is adjacent in one
\* direction only, and a candidate without coordinates
C3_Witness ==
  /\ DoctorExited
  /\ \E A \in Range(dr.suburbBySlug) : \E B \in Range(dr.suburbBySlug) :
       /\ A.cluster # B.cluster /\ HasCoordinates(A) /\ HasCoordinates(B)
       /\ haversineKm(A, B) > 0 /\ dr.weights.biasKm # 0 /\ dr.weights.crossPenalty < 0
       /\ ListsAsNeighbour(A.slug, B.slug) /\ ~ListsAsNeighbour(B.slug, A.slug)
       /\ ScoreOf(A.slug, B.slug) # ScoreOf(B.slug, A.slug)
  /\ \E C \in Range(dr.suburbBySlug) : ~HasCoordinates(C)

\* the weights in effect are in the range the configuration schema accepts
WeightsAccepted ==
  /\ dr.weights.adjacencyBoost >= 0 /\ dr.weights.clusterBoost >= 0
  /\ dr.weights.biasKm >= 0 /\ dr.weights.crossPenalty >= 0

\* the score of B as a neighbour of A were B placed in A's cluster
ScoreIfSameCluster(A, B) ==
  scoreOfParts(scoreParts(A, [B EXCEPT !.cluster = A.cluster], adjacencyDoc, dr.weights))

\* C4: under weights the schema accepts, a pair in different clusters scores
\* strictly lower than the same pair placed in one cluster.
C4_CrossClusterScoresLower ==
  (DoctorLoaded /\ WeightsAccepted) =>
    \A A \in Range(dr.suburbBySlug) : \A B \in Range(dr.suburbBySlug) :
      A.cluster # B.cluster => ScoreOf(A.slug, B.slug) < ScoreIfSameCluster(A, B)

\* C5: without --strict the Doctor exits 0 whatever it found, except that a
\* clusters file that is absent or unparseable gives a nonzero exit in both modes.
C5_NonStrictExitsZeroUnlessNoClusters ==
  DoctorExited =>
    /\ ~clustersDoc.ok => exitCode # << 0 >>
    /\ (clustersDoc.ok /\ ~env.STRICT) => exitCode = << 0 >>

\* the suburb entries of the clusters document
DocSuburbs ==
  IF clustersDoc.ok /\ clustersDoc.shape = "array"
  THEN Flatten([i \in 1..Len(clustersDoc.clusters) |->
                  IF isStr(clustersDoc.clusters[i].slug) THEN clustersDoc.clusters[i].suburbs ELSE << >>])
  ELSE << >>

DocSlugs == { slugProp(DocSuburbs[i]) : i \in 1..Len(DocSuburbs) }

\* the edges of the adjacency entries that are lists
DocEdges ==
  IF adjacencyDoc.ok
  THEN edgesOf(AdjFile(SelectSeq(adjacencyDoc.entries, LAMBDA e : e.kind = "array")))
  ELSE << >>

DocProximity ==
  IF proxDoc.ok
  THEN Flatten([i \in 1..Len(proxDoc.nearby) |->
                  [j \in 1..Len(proxDoc.nearby[i].list) |->
                     [src |-> proxDoc.nearby[i].src, dst |-> proxDoc.nearby[i].list[j]]]])
  ELSE << >>

\* an adjacency or proximity source or target that is no suburb of the catalog
DocMissingNode ==
  \/ adjacencyDoc.ok /\ \E i \in 1..Len(adjacencyDoc.entries) : adjacencyDoc.entries[i].src \notin DocSlugs
  \/ \E i \in 1..Len(DocEdges) : DocEdges[i].dst \notin DocSlugs
  \/ proxDoc.ok /\ \E i \in 1..Len(proxDoc.nearby) : proxDoc.nearby[i].src \notin DocSlugs

DocDuplicateSuburb ==
  \E i \in 1..Len(DocSuburbs) : \E j \in 1..Len(DocSuburbs) :
    i # j /\ slugProp(DocSuburbs[i]) = slugProp(DocSuburbs[j])

DocSelfLoop ==
  \/ \E i \in 1..Len(DocEdges) : DocEdges[i].src = DocEdges[i].dst
  \/ \E i \in 1..Len(DocProximity) :
       DocProximity[i].src \in DocSlugs /\ DocProximity[i].src = DocProximity[i].dst

DocOutOfRange ==
  \E i \in 1..Len(DocSuburbs) :
    /\ HasCoordinates(DocSuburbs[i])
    /\ DocSuburbs[i].lng[1] > 180
    /\ \A j \in (i + 1)..Len(DocSuburbs) : slugProp(DocSuburbs[j]) # slugProp(DocSuburbs[i])

IssueRecorded == dr.issues.schema # << >> \/ dr.issues.referential # << >>

C7_ReportWrittenBeforeExit ==
  DoctorExited => {"geo-report.json", "geo-report.txt"} \subseteq dr.written

\* ------------------------------------------------------------------ the repair, as the claims speak of it
FixedWritten == prog = "doctor" /\ "geo-proximity-fixed.json" \in dr.written

CatalogSlugs == Range(SbKeys(dr.suburbBySlug))

NoRepeat(list) == \A i \in 1..Len(list) : \A j \in 1..Len(list) : list[i] = list[j] => i = j

\* C11: with --write, the repaired list of every catalog suburb s holds no
\* entry equal to s, no slug twice and no slug outside the catalog, and has
\* exactly min(LIMIT, number of other catalog suburbs) entries.
C11_RepairedListsValid ==
  FixedWritten =>
    /\ Len(dr.fixed) = Len(dr.suburbBySlug)
    /\ \A i \in 1..Len(dr.fixed) :
         LET s    == dr.fixed[i].suburb
             list == dr.fixed[i].list
         IN  /\ s = dr.suburbBySlug[i].slug
             /\ s \notin Range(list)
             /\ NoRepeat(list)
             /\ Range(list) \subseteq CatalogSlugs
             /\ Len(list) = Min(dr.LIMIT, Cardinality(CatalogSlugs \ {s}))

\* a repair dropped invalid curated entries of one suburb and padded the list of another
C11_Witness ==
  /\ FixedWritten /\ DoctorExited
  /\ \E i \in 1..Len(dr.fixed) :
       /\ ~NoRepeat(proxOf(proxDoc, dr.fixed[i].suburb))
       /\ ~(Range(proxOf(proxDoc, dr.fixed[i].suburb)) \subseteq CatalogSlugs)
       /\ dr.fixed[i].list # << >>
  /\ \E i \in 1..Len(dr.fixed) :
       proxOf(proxDoc, dr.fixed[i].suburb) = << >> /\ dr.fixed[i].list # << >>

\* ------------------------------------------------------------------ the enforce pass, as the claims speak of it
\* the pass ran to its end and wrote the adjacency document
EnforceWritten ==
  prog = "enforce" /\ pc = "exit" /\ Last(console).kind = "enforced cross-cluster adjacency"

\* the clusters that list slug s in the clusters document
EnforceClustersOf(s) ==
  { p[1] : p \in { q \in Range(clusterPairs(clustersDoc)) : slugify(q[2]) = s } }

InCatalog(s) == EnforceClustersOf(s) # {}

Whitelisted(k, v) ==
  \E i \in 1..Len(cfgDoc.whitelistEdges) :
    {cfgDoc.whitelistEdges[i].from, cfgDoc.whitelistEdges[i].to} = {k, v}

\* an edge the pass is to keep: between catalog suburbs of one cluster, or whitelisted
Allowed(k, v) ==
  /\ InCatalog(k) /\ InCatalog(v)
  /\ (EnforceClustersOf(k) = EnforceClustersOf(v) \/ Whitelisted(k, v))

EdgeCount(entries) == SumSeq([i \in 1..Len(entries) |-> Len(entries[i].list)])

C13_DroppedCountsRemovedEdges ==
  EnforceWritten => tally.dropped = EdgeCount(adjacencyDoc.entries) - EdgeCount(adj)

\* ------------------------------------------------------------------ slugs, as the claims speak of them
SlugifyReturned == prog = "slugify" /\ pc # "call"

SlugifiedTwice == prog = "slugify" /\ pc = "done"

WellFormedSlug(s) ==
  /\ \A i \in 1..Len(s) : IsAlnum(s[i]) \/ s[i] = "-"
  /\ s # << >> => (Head(s) # "-" /\ s[Len(s)] # "-")
  /\ \A i \in 1..(Len(s) - 1) : ~(s[i] = "-" /\ s[i + 1] = "-")

\* C17: the slug slugify returns holds only lower-case letters, digits and
\* hyphens, neither begins nor ends with a hyphen and has no two hyphens in a
\* row (clusters facade, true-geo importer, integrity check).
C17_SlugWellFormed ==
  (SlugifyReturned /\ env.impl \in {"facade", "import", "integrity"}) => WellFormedSlug(console[1].a)

\* ------------------------------------------------------------------ the facade, as the claims speak of it
NearbyReturned == prog = "getNearbySuburbs" /\ pc = "done"

NearbySource == toLowerCase(env.suburbSlug)

NearbyResult == console[1].list

NearbyLimit == Max(1, IF env.limit = << >> THEN FacadeDefaultLimit ELSE env.limit[1])

\* the suburbs of the catalog document, each with the cluster that lists it
NearbySuburbs ==
  UNION { { [slug |-> clustersDoc.clusters[i].suburbs[j].slug, lng |-> clustersDoc.clusters[i].suburbs[j].lng,
             cluster |-> clustersDoc.clusters[i].slug] : j \in 1..Len(clustersDoc.clusters[i].suburbs) } :
          i \in 1..Len(clustersDoc.clusters) }

NearbyKnown(sl) == \E r \in NearbySuburbs : r.slug = sl

NearbyEntry(sl) == CHOOSE r \in NearbySuburbs : r.slug = sl

\* the adjacency list of the source, slugs compared in lower case
NearbyAdjacencyList ==
  IF adjacencyDoc.ok /\ toLowerCase(adjacencyDoc.entries[1].src) = NearbySource
  THEN [i \in 1..Len(adjacencyDoc.entries[1].list) |-> toLowerCase(adjacencyDoc.entries[1].list[i])]
  ELSE << >>

NearbyTierOne == SelectSeq(NearbyAdjacencyList, NearbyKnown)

\* the suburbs of the source's cluster besides the source and its adjacency entries
NearbyRemaining ==
  { r.slug : r \in { q \in NearbySuburbs : /\ q.cluster = NearbyEntry(NearbySource).cluster
                                           /\ q.slug # NearbySource
                                           /\ q.slug \notin Range(NearbyTierOne) } }

\* x does not come after y: by distance from the source (a suburb without
\* coordinates counts as infinitely far), or by slug when the source has no coordinates
NotAfter(x, y) ==
  IF NearbyEntry(NearbySource).lng = << >> THEN x = y \/ StrLess(x, y)
  ELSE \/ NearbyEntry(y).lng = << >>
       \/ /\ NearbyEntry(x).lng # << >>
          /\ haversineKm(NearbyEntry(NearbySource), NearbyEntry(x))
               <= haversineKm(NearbyEntry(NearbySource), NearbyEntry(y))

NearbyTail == (Len(NearbyTierOne) + 1)..Len(NearbyResult)

\* C14: getNearbySuburbs(s, limit) returns max(1, limit) entries at most: first
\* the entries of s's adjacency list that are in the catalog, in list order;
\* then, only when these are fewer than the limit, the nearest other suburbs
\* of s's own cluster in ascending distance from s (ascending slug when s has
\* no coordinates); a suburb of another cluster is returned only as an
\* adjacency entry.
C14_NearbyBuiltInTiers ==
  (NearbyReturned /\ NearbyKnown(NearbySource)) =>
    /\ Len(NearbyResult) = Min(NearbyLimit, Len(NearbyTierOne) + Cardinality(NearbyRemaining))
    /\ \A i \in 1..Min(Len(NearbyResult), Len(NearbyTierOne)) : NearbyResult[i] = NearbyTierOne[i]
    /\ \A i \in NearbyTail :
         /\ NearbyResult[i] \in NearbyRemaining
         /\ \A j \in NearbyTail : i < j => NearbyResult[i] # NearbyResult[j] /\ NotAfter(NearbyResult[i], NearbyResult[j])
         /\ \A x \in NearbyRemaining \ { NearbyResult[j] : j \in NearbyTail } : NotAfter(NearbyResult[i], x)
    /\ \A i \in 1..Len(NearbyResult) :
         NearbyEntry(NearbyResult[i]).cluster # NearbyEntry(NearbySource).cluster
           => NearbyResult[i] \in Range(NearbyAdjacencyList)

\* a neighbour from the other cluster comes first, then the source's own
\* cluster by distance, against the order of the catalog
C14_Witness ==
  /\ NearbyReturned /\ NearbySource = << "a" >>
  /\ clustersDoc.clusters[1].suburbs[2].slug = << "b" >>
  /\ NearbyResult = << << "z" >>, << "c" >>, << "b" >> >>

IsCoveredReturned == prog = "isCovered" /\ pc = "done"

CoveredResult == console[1].kind = "return true"

\* the service has a key in the coverage document
ServiceListed == \E i \in 1..Len(coverage) : coverage[i].svc = env.service

ServiceList == coverage[CHOOSE i \in 1..Len(coverage) : coverage[i].svc = env.service].entries

\* C20: isCovered(service, suburb) is true for every suburb when the coverage
\* document has no key for the service; with the key present it is true
\* exactly when the suburb, compared without regard to case, is in the
\* service's list, so an empty list covers no suburb.
C20_CoveredIffListedOrUnrestricted ==
  IsCoveredReturned =>
    /\ ~ServiceListed => CoveredResult
    /\ ServiceListed =>
         (CoveredResult <=> \E t \in Range(ServiceList) : toLowerCase(t) = toLowerCase(env.suburbSlug))
    /\ (ServiceListed /\ ServiceList = << >>) => ~CoveredResult

\* a suburb covered through a list entry that differs from it in case
C20_Witness ==
  /\ IsCoveredReturned /\ ServiceListed /\ CoveredResult
  /\ env.suburbSlug \notin Range(ServiceList)

\* a service whose list is present and empty covers nothing
C20_WitnessEmpty == IsCoveredReturned /\ ServiceListed /\ ServiceList = << >> /\ ~CoveredResult

\* ------------------------------------------------------------------ the cluster pass, as the claims speak of it
\* some line of the console reports suburb s as listed under several clusters
ReportedMultiCluster(s) ==
  \E i \in 1..Len(console) : console[i].kind = "multiple-clusters" /\ console[i].a = s

ReportedDuplicates == \E i \in 1..Len(console) : console[i].kind = "duplicate-in-cluster"

\* C15: normalizeClusters, run on a document with several violations, reports
\* all of them before it fails: every suburb listed under two clusters, and
\* the duplicates inside a cluster as well.
C15_AllClusterViolationsReported ==
  (NormalizeClustersRan /\ NoEarlierViolation) =>
    /\ \A s \in MultiListed(clustersDoc) : ReportedMultiCluster(s)
    /\ HasIntraDuplicate(clustersDoc) => ReportedDuplicates

\* ------------------------------------------------------------------ the canonical shape, as the claims speak of it
ShapeReturned == prog = "normalizeClustersShape" /\ pc = "done" /\ console[1].kind = "return"

\* C18: in the document normalizeClustersShape returns, for a record of arrays
\* and for an array of clusters alike, every suburb entry of every cluster is
\* an object that carries a slug.
C18_EverySuburbCarriesSlug ==
  ShapeReturned =>
    \A i \in 1..Len(console[1].list) :
      \A j \in 1..Len(console[1].list[i].suburbs) :
        /\ console[1].list[i].suburbs[j].kind = "obj"
        /\ Truthy(console[1].list[i].suburbs[j].slug)

\* ------------------------------------------------------------------ reciprocity, as the claims speak of it
\* the Doctor got past its statistics
StatsComputed ==
  /\ prog = "doctor" /\ pc \in {"outputs", "report", "verdict", "exit"}
  /\ \A i \in 1..Len(console) : console[i].kind # "TypeError"

\* the directed edges whose reverse is listed too
ReciprocalEdges ==
  { i \in 1..Len(DocEdges) :
      \E j \in 1..Len(DocEdges) : DocEdges[j].src = DocEdges[i].dst /\ DocEdges[j].dst = DocEdges[i].src }

\* some edge between two suburbs of the catalog has no reverse edge, and the
\* adjacency document has no edge outside the catalog and no self-loop
OneWayOverKnown ==
  /\ ReciprocalEdges # 1..Len(DocEdges)
  /\ \A i \in 1..Len(DocEdges) :
       /\ DocEdges[i].src \in DocSlugs /\ DocEdges[i].dst \in DocSlugs
       /\ DocEdges[i].src # DocEdges[i].dst

\* the schema and referential issues that are about the adjacency document
AdjacencyIssues ==
  { i \in 1..Len(dr.issues.schema) :
      dr.issues.schema[i].kind \in {"adjacency must be string[]", "adjacency lists itself"} }
    \cup { i \in 1..Len(dr.issues.referential) :
      dr.issues.referential[i].kind \in {"adjacency source not in clusters", "adjacency target not in clusters"} }

\* C19: the reciprocity rate is the number of directed edges whose reverse
\* edge is listed too, divided by the number of directed edges, and 0 without
\* edges; one-way edges between suburbs of the catalog raise no schema or
\* referential issue and give a rate below 1; and the exit status is fixed
\* by --strict, the clusters file and the recorded issues, whatever the rate.
C19_ReciprocityIsDiagnosticOnly ==
  StatsComputed =>
    /\ dr.stats.reciprocityRate.num * Max(1, Len(DocEdges))
         = Cardinality(ReciprocalEdges) * dr.stats.reciprocityRate.den
    /\ Len(DocEdges) = 0 => dr.stats.reciprocityRate.num = 0
    /\ OneWayOverKnown =>
         /\ AdjacencyIssues = {}
         /\ dr.stats.reciprocityRate.num < dr.stats.reciprocityRate.den
    /\ DoctorExited =>
         (exitCode = << 1 >> <=> (env.STRICT /\ (~clustersDoc.ok \/ IssueRecorded)))
    /\ DoctorExited => exitCode \in { << 0 >>, << 1 >> }

\* a strict run over edges of which some, not all, are reciprocal ended with exit 0
C19_Witness ==
  /\ DoctorExited /\ StatsComputed /\ env.STRICT /\ exitCode = << 0 >>
  /\ OneWayOverKnown
  /\ 0 < dr.stats.reciprocityRate.num
  /\ dr.stats.reciprocityRate.num < dr.stats.reciprocityRate.den

\* ------------------------------------------------------------------ nearby lists, as the claims speak of them
\* C29: the list getNearbySuburbs(s) returns never holds s itself and never
\* holds a suburb slug twice, also when the adjacency list of s names s or
\* repeats a neighbour.
C29_NearbyHasNoSelfNoRepeat ==
  NearbyReturned =>
    /\ NearbySource \notin Range(NearbyResult)
    /\ NoRepeat(NearbyResult)

\* ------------------------------------------------------------------ the enforce pass run twice
SourceKeys(entries) == { entries[i].src : i \in 1..Len(entries) }

EnforceReran == prog = "enforce" /\ pc = "rerun"

\* C30: a second enforce pass over the document the first one wrote, with the
\* same clusters and whitelist, writes the same document and counts 0 dropped
\* edges; and the source keys of a written document are those of its input,
\* a source that lost every edge staying with an empty list.
C30_EnforceIdempotent ==
  [][ /\ EnforceWritten' => SourceKeys(adj') = SourceKeys(adjacencyDoc.entries)
      /\ EnforceReran' =>
           /\ adj' = adj
           /\ tally'.dropped = 0
           /\ SourceKeys(adj') = SourceKeys(adjacencyDoc.entries) ]_vars

\* the second pass ran after a first one that removed edges and emptied a source's list
C30_Witness ==
  /\ EnforceReran
  /\ EdgeCount(adj) < EdgeCount(adjacencyDoc.entries)
  /\ EdgeCount(adj) > 0
  /\ \E i \in 1..Len(adj) : adj[i].list = << >> /\ adjacencyDoc.entries[i].list # << >>

\* ------------------------------------------------------------------ the suggested split, as the claims speak of it
\* --suggest-split names a cluster of the catalog that has suburbs with coordinates, and K > 1
SplitSuggestible ==
  /\ Truthy(env.SUGGEST_SPLIT_CLUSTER)
  /\ env.SUGGEST_SPLIT_K # << >> /\ env.SUGGEST_SPLIT_K[1] > 1
  /\ \E i \in 1..Len(DocSuburbs) : HasCoordinates(DocSuburbs[i])
  /\ clustersDoc.ok /\ clustersDoc.shape = "array"
  /\ \E i \in 1..Len(clustersDoc.clusters) :
       /\ clustersDoc.clusters[i].slug = env.SUGGEST_SPLIT_CLUSTER
       /\ \E j \in 1..Len(clustersDoc.clusters[i].suburbs) : HasCoordinates(clustersDoc.clusters[i].suburbs[j])

\* C23: a Doctor run asked for a split suggestion of an existing cluster with
\* coordinate-bearing suburbs (K > 1) has written the suggested split by the
\* time it terminates, whatever its other outputs and its verdict.
C23_SuggestedSplitWrittenBeforeExit ==
  (DoctorExited /\ SplitSuggestible) => "geo-suggested-split.json" \in dr.written

\* ------------------------------------------------------------------ two Doctor runs, as the claims speak of them
SecondRunExited == DoctorExited /\ dr.previous # << >>

SplitExited == prog = "split" /\ pc = "exit"

SplitSucceeded == SplitExited /\ exitCode = << 0 >>

\* the document can be read as a list of clusters
SplitReadable == clustersDoc.ok /\ clustersDoc.shape = "array"

\* positions of the clusters that bear the target slug
TargetPositions ==
  IF SplitReadable
  THEN { i \in 1..Len(clustersDoc.clusters) : clustersDoc.clusters[i].slug = splitTarget }
  ELSE {}

\* the target cluster: the first that bears the slug
TargetPosition == CHOOSE i \in TargetPositions : \A j \in TargetPositions : i <= j

HasLatLng(e) == e.kind = "obj" /\ Len(e.lat) = 1 /\ Len(e.lng) = 1

\* the suburbs of the target, split by whether they carry coordinates
TargetSuburbs == clustersDoc.clusters[TargetPosition].suburbs

CoordinateCount == Cardinality({ i \in 1..Len(TargetSuburbs) : HasLatLng(TargetSuburbs[i]) })

FileMissing == ~clustersDoc.ok

TargetNotFound == SplitReadable /\ TargetPositions = {}

TooFewCoordinates ==
  /\ TargetPositions # {}
  /\ clustersDoc.clusters[TargetPosition].hasSuburbs
  /\ CoordinateCount < splitK

SplitQualifies ==
  /\ TargetPositions # {}
  /\ clustersDoc.clusters[TargetPosition].hasSuburbs
  /\ CoordinateCount >= splitK

\* C21: a run that finds the file missing, the target absent or fewer
\* coordinate-bearing suburbs than K exits nonzero with the document as it was,
\* and the document changes only when the target exists and has at least K
\* suburbs with finite lat and lng
C21_SplitWritesOnlyWhenQualified ==
  [][ /\ prog = "split" /\ clustersDoc' # clustersDoc => SplitQualifies
      /\ (prog = "split" /\ pc = "run" /\ (FileMissing \/ TargetNotFound \/ TooFewCoordinates))
           => SplitExited' /\ exitCode' # << 0 >> /\ exitCode' # << >> /\ clustersDoc' = clustersDoc ]_vars

\* a refused split and a written one
C21_Witness ==
  /\ SplitExited /\ exitCode = << 1 >>
  /\ TooFewCoordinates
  /\ CoordinateCount >= 1

C21_WitnessWritten ==
  /\ SplitSucceeded
  /\ \E i \in 1..Len(console) : console[i].kind = "split" /\ Len(console[i].list) = 2

\* the sub-clusters a successful split wrote, in order
SubClusters == [k \in 1..km.K |-> clustersDoc.clusters[km.idx + k - 1]]

\* the slugs of the suburbs of a list
SlugsOf(suburbs) == { suburbs[i].slug : i \in 1..Len(suburbs) }

\* the target held exactly these four suburbs, in some order
SplitOfFour(four) ==
  /\ SplitSucceeded /\ km.K = 2
  /\ Len(km.subs) = 4
  /\ Range(km.subs) = Range(four)

\* C22: with K=2, four suburbs that form two well-separated pairs are split
\* into exactly the two pairs, in whatever order the four are listed
C22_PairsSplitInEveryOrder ==
  \A four \in { PairSuburbs(9), LinePairSuburbs } :
    SplitOfFour(four) =>
      { SlugsOf(SubClusters[1].suburbs), SlugsOf(SubClusters[2].suburbs) }
        = { SlugsOf(SubSeq(four, 1, 2)), SlugsOf(SubSeq(four, 3, 4)) }

\* squared Euclidean distance of suburb s to centroid c1 is at most that to c2
NotFarther(s, c1, c2) ==
  LET n1 == (s.lat[1] * c1.d - c1.lat) * (s.lat[1] * c1.d - c1.lat)
            + (s.lng[1] * c1.d - c1.lng) * (s.lng[1] * c1.d - c1.lng)
      n2 == (s.lat[1] * c2.d - c2.lat) * (s.lat[1] * c2.d - c2.lat)
            + (s.lng[1] * c2.d - c2.lng) * (s.lng[1] * c2.d - c2.lng)
  IN  n1 * c2.d * c2.d <= n2 * c1.d * c1.d

\* the lowest index among the centroids nearest to s
NearestCentroid(s, cs) ==
  CHOOSE k \in 1..Len(cs) :
    /\ \A j \in 1..Len(cs) : NotFarther(s, cs[k], cs[j])
    /\ \A j \in 1..(k - 1) : ~NotFarther(s, cs[j], cs[k])

\* centroid a is within 1e-6 of centroid b in lat and in lng
BarelyMoved(a, b) ==
  /\ Abs(a.lat * b.d - b.lat * a.d) * PerTolerance < a.d * b.d
  /\ Abs(a.lng * b.d - b.lng * a.d) * PerTolerance < a.d * b.d

\* a step that is one reassignment round
RoundStep == prog = "split" /\ pc = "kmeans" /\ pc' = "kmeans" /\ km' # km

\* the rounds performed so far
RoundsDone(k) == k.iter + (IF k.stopped THEN 1 ELSE 0)

AssignedTo(k, subs, cs) == SelectSeq(subs, LAMBDA s : NearestCentroid(s, cs) = k)

\* centroid c is the arithmetic mean of the suburbs of a non-empty list
IsMeanOf(c, list) ==
  /\ c.lat * Len(list) = c.d * SumSeq([i \in 1..Len(list) |-> list[i].lat[1]])
  /\ c.lng * Len(list) = c.d * SumSeq([i \in 1..Len(list) |-> list[i].lng[1]])

\* C26: in each round a centroid whose bucket stayed empty keeps exactly its
\* previous value, and every other centroid becomes the mean of the lat and
\* lng of the suburbs assigned to it in that round
C26_EmptyBucketKeepsCentroid ==
  [][ RoundStep =>
        \A k \in 1..Len(km.centroids) :
          LET mine == AssignedTo(k, km.subs, km.centroids)
          IN  /\ mine = << >> => km'.newC[k] = km.centroids[k]
              /\ mine # << >> => IsMeanOf(km'.newC[k], mine)
              /\ ~km'.stopped => km'.centroids[k] = km'.newC[k] ]_vars

\* a round left one bucket empty and moved another centroid
C26_Witness ==
  /\ prog = "split" /\ km.newC # << >>
  /\ \E k \in 1..Len(km.buckets) : km.buckets[k] = << >>
  /\ \E k \in 1..Len(km.buckets) : km.buckets[k] # << >> /\ km.iter >= 1

\* the document before the split, as the step that writes sees it, and the
\* sub-clusters that replace the target in the document after
WrittenSubClusters(after, at, K) == SubSeq(after.clusters, at, at + K - 1)

\* the clusters of a written document that list a suburb slug
ListedIn(doc, slug) ==
  { i \in 1..Len(doc.clusters) : slug \in SlugsOf(doc.clusters[i].suburbs) }

\* C27 as stated: ... and every suburb of the target without finite lat/lng
\* is in no cluster of the written document
C27_DroppedSuburbsAreInNoCluster ==
  [][ (SplitSucceeded' /\ ~SplitExited) =>
        LET at    == TargetPosition
            K     == splitK
            old   == clustersDoc.clusters
            new   == clustersDoc'.clusters
            parts == WrittenSubClusters(clustersDoc', at, K)
        IN  /\ Len(new) = Len(old) - 1 + K
            /\ SubSeq(new, 1, at - 1) = SubSeq(old, 1, at - 1)
            /\ SubSeq(new, at + K, Len(new)) = SubSeq(old, at + 1, Len(old))
            /\ \A k \in 1..K : parts[k].slug = splitBaseSlug \o << "-" >> \o labelOf(k - 1)
            /\ \A i \in 1..Len(TargetSuburbs) :
                 LET s == TargetSuburbs[i]
                 IN  /\ HasLatLng(s) =>
                          Cardinality({ k \in 1..K : s \in Range(parts[k].suburbs) }) = 1
                     /\ ~HasLatLng(s) => ListedIn(clustersDoc', s.slug) = {} ]_vars

\* C27: a successful split puts the K sub-clusters where the target stood and
\* leaves every other cluster as it was and in order; every coordinate-bearing
\* suburb of the target is in exactly one sub-cluster, and every suburb of the
\* target without finite lat/lng is in none of the sub-clusters
C27_SplitReplacesTargetInPlace ==
  [][ (SplitSucceeded' /\ ~SplitExited) =>
        LET at    == TargetPosition
            K     == splitK
            old   == clustersDoc.clusters
            new   == clustersDoc'.clusters
            parts == WrittenSubClusters(clustersDoc', at, K)
        IN  /\ Len(new) = Len(old) - 1 + K
            /\ SubSeq(new, 1, at - 1) = SubSeq(old, 1, at - 1)
            /\ SubSeq(new, at + K, Len(new)) = SubSeq(old, at + 1, Len(old))
            /\ \A k \in 1..K : parts[k].slug = splitBaseSlug \o << "-" >> \o labelOf(k - 1)
            /\ \A i \in 1..Len(TargetSuburbs) :
                 LET s == TargetSuburbs[i]
                 IN  /\ HasLatLng(s) =>
                          Cardinality({ k \in 1..K : s \in Range(parts[k].suburbs) }) = 1
                     /\ ~HasLatLng(s) => \A k \in 1..K : s \notin Range(parts[k].suburbs) ]_vars

\* a two-way split written in front of two clusters that stay
C27_Witness ==
  /\ SplitSucceeded /\ km.K = 2 /\ km.idx = 1
  /\ Len(clustersDoc.clusters) = 4
  /\ clustersDoc.clusters[3] = SplitOther
  /\ \A k \in 1..2 : SubClusters[k].suburbs # << >>

\* a split about to be written that drops a suburb without coordinates
C27_WitnessDropped ==
  /\ prog = "split" /\ pc = "kmeans" /\ km.stopped /\ km.K = 2
  /\ Len(TargetSuburbs) > Len(km.subs)

\* C28: every sub-cluster written by a successful split holds at least one
\* suburb and the K sub-cluster slugs are pairwise distinct
C28_SubClustersNonEmptyDistinct ==
  SplitSucceeded =>
    /\ \A k \in 1..km.K : SubClusters[k].suburbs # << >>
    /\ \A j \in 1..km.K : \A k \in 1..km.K : SubClusters[j].slug = SubClusters[k].slug => j = k

\* the slugs alone: pairwise distinct, also past the six labels
C28_SubClusterSlugsDistinct ==
  SplitSucceeded =>
    \A j \in 1..km.K : \A k \in 1..km.K : SubClusters[j].slug = SubClusters[k].slug => j = k

\* a split into more parts than there are labels
C28_WitnessManyParts == SplitSucceeded /\ km.K > Len(labels)

====
